---- MODULE Spec2Model ----
(***************************************************************************)
(* Hybrid retrieval of tli-sfr/multimodal-rag: the property graph kept by  *)
(* Neo4jClient, the point collection kept by QdrantVectorStore and the     *)
(* HybridSearchEngine that joins them (vector search, graph traversal,     *)
(* graph filter, weighted fusion, top-k).                                  *)
(*                                                                         *)
(* Conventions of the model                                                *)
(*   - a Python str is a sequence of one-character strings;                *)
(*   - a UUID is a natural number, str(uuid) is the pair <<"str", n>>;     *)
(*   - a float score is an exact fraction [n |-> numerator, d |-> denom],  *)
(*     d > 0 (rounding of IEEE doubles is not modelled);                   *)
(*   - a Python list is a sequence, a dict keyed by k a function or a set  *)
(*     of records with unique k.                                           *)
(***************************************************************************)
EXTENDS Integers, Sequences, FiniteSets, TLC

(***************************************************************************)
(* Bounds of the model.                                                    *)
(***************************************************************************)
\* nodes + relationships + points the stores may hold together
MaxStore == 4
\* total length of the result lists handed to _apply_graph_filter and
\* _fuse_results when they are called on their own
MaxLen == 4
\* number of whitespace tokens of the texts handed to _extract_entity_names
MaxTokens == 4
\* number of items of the lists in the property maps handed to
\* _flatten_properties
MaxItems == 2
\* the longest list given to a batch write
MaxBatch == 2
\* the longest list of candidate names given to find_entities_by_name
MaxNames == 2
\* the longest list of chunks given to index_chunks
MaxChunks == 2

(***************************************************************************)
(* Program constants.                                                      *)
(***************************************************************************)
\* config.get('search.hybrid.vector_search.top_k', 20)
DefaultTopK == 20
\* find_entities_by_name(..., limit=10) in _graph_search
EntityLimit == 10
\* find_related_chunks(..., limit=20) in _graph_search
ChunkLimit == 20
\* find_related_chunks(..., max_depth=2) in _graph_search
QueryMaxDepth == 2

(***************************************************************************)
(* Python strings.                                                         *)
(***************************************************************************)
UpperChars == <<"A","B","C","D","E","F","G","H","I","J","K","L","M",
                "N","O","P","Q","R","S","T","U","V","W","X","Y","Z">>
LowerChars == <<"a","b","c","d","e","f","g","h","i","j","k","l","m",
                "n","o","p","q","r","s","t","u","v","w","x","y","z">>

UpperSet == {UpperChars[i] : i \in 1..26}
LowerSet == {LowerChars[i] : i \in 1..26}
IsUpper(c) == c \in UpperSet
\* \w of the re module, over the characters the model uses
IsWordChar(c) == c \in UpperSet \/ c \in LowerSet

LowerOfUpper == [c \in UpperSet |-> LowerChars[CHOOSE i \in 1..26 : UpperChars[i] = c]]
LowerChar(c) == IF IsUpper(c) THEN LowerOfUpper[c] ELSE c

\* str.lower() / Cypher toLower()
ToLower(s) == [i \in 1..Len(s) |-> LowerChar(s[i])]

\* needle in hay / Cypher CONTAINS
Contains(hay, needle) ==
    \E i \in 0..(Len(hay) - Len(needle)) :
        \A j \in 1..Len(needle) : hay[i + j] = needle[j]

\* re.sub(r"'s\b", "", text): drop every "'s" that ends at a word boundary
RECURSIVE RemovePossessive(_)
RemovePossessive(text) ==
    IF text = <<>> THEN <<>>
    ELSE IF /\ Len(text) >= 2
            /\ text[1] = "'"
            /\ text[2] = "s"
            /\ (Len(text) = 2 \/ ~IsWordChar(text[3]))
         THEN RemovePossessive(SubSeq(text, 3, Len(text)))
         ELSE <<text[1]>> \o RemovePossessive(Tail(text))

\* str.split(): the maximal runs of non-blank characters, in order
RECURSIVE SplitFrom(_, _)
SplitFrom(text, word) ==
    IF text = <<>> THEN (IF word = <<>> THEN <<>> ELSE <<word>>)
    ELSE IF text[1] = " "
         THEN (IF word = <<>> THEN <<>> ELSE <<word>>) \o SplitFrom(Tail(text), <<>>)
         ELSE SplitFrom(Tail(text), Append(word, text[1]))

Split(text) == SplitFrom(text, <<>>)

(***************************************************************************)
(* Generic list helpers.                                                   *)
(***************************************************************************)
Range(s) == {s[i] : i \in 1..Len(s)}

\* [s[i] for i in range(len(s)) if i in I]: the elements at the indices I, in order
KeepAt(s, I) ==
    LET F[i \in 0..Len(s)] ==
            IF i = 0 THEN <<>>
            ELSE IF i \in I THEN Append(F[i - 1], s[i]) ELSE F[i - 1]
    IN F[Len(s)]

\* s[:n] for n >= 0
Take(s, n) == SubSeq(s, 1, IF n < Len(s) THEN n ELSE Len(s))

\* Python s[:k] for any integer k (a negative k counts from the end)
PySlice(s, k) == IF k >= 0 THEN Take(s, k)
                 ELSE Take(s, IF Len(s) + k > 0 THEN Len(s) + k ELSE 0)

(***************************************************************************)
(* Identifiers.                                                            *)
(***************************************************************************)
\* str(uuid)
Str(u) == <<"str", u>>
\* UUID(string)
UUID(s) == s[2]

(***************************************************************************)
(* State.                                                                  *)
(***************************************************************************)
VARIABLES
    nodes,             \* Neo4j: the (:Entity) nodes, one record per e.id
    rels,              \* Neo4j: the relationships (source)-[:type]->(target)
    points,            \* Qdrant: the ids of the stored points (chunks)
    engine,            \* HybridSearchEngine: the fields set by __init__
    call,              \* the arguments of the last call of search / of a helper
    vector_results,    \* search: what _vector_search returned
    matched_entities,  \* _graph_search: what find_entities_by_name returned
    related_chunks,    \* _graph_search: what find_related_chunks returned
    graph_results,     \* search: what _graph_search returned
    fusion_vector,     \* search: the vector list handed to _fuse_results
    fused_results,     \* search: what _fuse_results returned
    final_results,     \* search: the returned list
    returned,          \* what the last call of a helper on its own returned
    keyword_searcher,  \* KeywordSearcher: the fields bm25 and chunks
    sessions,          \* Neo4j driver: the sessions it has handed out
    executor           \* _ingest_parallel: the futures and the documents list

storeVars == <<nodes, rels, points>>
resultVars == <<vector_results, matched_entities, related_chunks,
                graph_results, fusion_vector, fused_results, final_results, returned>>
searchVars == <<call, vector_results, matched_entities, related_chunks,
                graph_results, fusion_vector, fused_results, final_results, returned>>
\* KeywordSearcher.__init__: self.bm25 = None, self.chunks = []
\* (bm25 is None, or the tokenized corpus of a BM25Okapi)
NoBM25 == [none |-> TRUE, corpus |-> <<>>]
NoIndex == [bm25 |-> NoBM25, chunks |-> <<>>]
\* no ThreadPoolExecutor exists
NoExecutor ==
    [files |-> <<>>, futures |-> <<>>, completed |-> <<>>, collected |-> <<>>,
     documents |-> <<>>]
\* the objects beside the stores and the engine
otherVars == <<keyword_searcher, sessions, executor>>
vars == <<nodes, rels, points, engine, call, vector_results, matched_entities,
          related_chunks, graph_results, fusion_vector, fused_results, final_results,
          returned, keyword_searcher, sessions, executor>>

(***************************************************************************)
(* The values the model draws its inputs from.                             *)
(***************************************************************************)
\* Entity.name values and their rank in the order used to list equal rows
EntityNames == << <<"A","n","n">>, <<"B","o","b">> >>
\* EntityType values written to e.type
EntityTypes == {"Person"}
\* RelationshipType values used as edge label
RelTypes == {"WORKS_FOR"}
\* uuid4() values of chunks
ChunkIds == {1, 2}
\* Entity.properties / Relationship.properties left at their default: {}
NoProperties == [k \in {} |-> {}]
\* the Entity objects a caller may write: (id, name, source_id, properties);
\* two of them carry the same id, so that a write can also replace a node
EntityObjects ==
    { [id |-> 1, name |-> EntityNames[1], source_id |-> 1, properties |-> NoProperties],
      [id |-> 2, name |-> EntityNames[2], source_id |-> 1, properties |-> NoProperties],
      [id |-> 3, name |-> EntityNames[2], source_id |-> 2, properties |-> NoProperties],
      [id |-> 1, name |-> EntityNames[2], source_id |-> 2, properties |-> NoProperties] }
EntityIds == {o.id : o \in EntityObjects}
\* Query.text: "ann", "Bob's", "who"
QueryTexts == { <<"a","n","n">>,
                <<"B","o","b","'","s">>,
                <<"w","h","o">> }

(***************************************************************************)
(* Neo4jClient: reads.                                                     *)
(***************************************************************************)
\* the nodes in the store's natural order (here: by id)
RECURSIVE NodeSeqOf(_)
NodeSeqOf(N) ==
    IF N = {} THEN <<>>
    ELSE LET first == CHOOSE e \in N : \A o \in N : UUID(e.id) <= UUID(o.id)
         IN <<first>> \o NodeSeqOf(N \ {first})

\* s[1] \o s[2] \o ... for a sequence of sequences
Flatten(ss) ==
    LET F[i \in 0..Len(ss)] == IF i = 0 THEN <<>> ELSE F[i - 1] \o ss[i]
    IN F[Len(ss)]

\* WHERE toLower(e.name) CONTAINS toLower(name)  /  = toLower(name)
NameMatches(e, name, fuzzy) ==
    IF fuzzy THEN Contains(ToLower(e.name), ToLower(name))
    ELSE ToLower(e.name) = ToLower(name)

\* LIMIT applied to the rows of each name, not to all the rows
find_entities_by_name_LimitPerName(entity_names, fuzzy, limit) ==
    IF entity_names = <<>> THEN <<>>
    ELSE LET ns == NodeSeqOf(nodes)
             RowsFor(name) ==
                 Take(KeepAt(ns, {i \in 1..Len(ns) : NameMatches(ns[i], name, fuzzy)}),
                      limit)
             found == Flatten([k \in 1..Len(entity_names) |-> RowsFor(entity_names[k])])
         IN [i \in 1..Len(found) |->
                [id |-> found[i].id, name |-> found[i].name, type |-> found[i].type]]

\* Neo4jClient.find_entities_by_name: UNWIND names, MATCH, RETURN e.id,
\* e.name, e.type (source_id is not among the returned columns) LIMIT
find_entities_by_name(entity_names, fuzzy, limit) ==
    IF entity_names = <<>> THEN <<>>
    ELSE LET ns == NodeSeqOf(nodes)
             RowsFor(name) ==
                 KeepAt(ns, {i \in 1..Len(ns) : NameMatches(ns[i], name, fuzzy)})
             found == Take(Flatten([k \in 1..Len(entity_names) |->
                                       RowsFor(entity_names[k])]), limit)
         IN [i \in 1..Len(found) |->
                [id |-> found[i].id, name |-> found[i].name, type |-> found[i].type]]

\* the relationships that touch node id n, whatever their direction
Incident(n) == {r \in rels : r.source = n \/ r.target = n}
OtherEnd(r, n) == IF r.source = n THEN r.target ELSE r.source

\* MATCH path = (start)-[*k]-(related): the paths of exactly k relationships
\* from start; a path never uses a relationship twice, it may revisit nodes
RECURSIVE PathsOfLength(_, _)
PathsOfLength(start, k) ==
    IF k = 0 THEN {[end |-> start, used |-> {}]}
    ELSE UNION { { [end |-> OtherEnd(r, p.end), used |-> p.used \cup {r}]
                   : r \in Incident(p.end) \ p.used }
                 : p \in PathsOfLength(start, k - 1) }

\* (start)-[*1..max_depth]-(related:Entity) RETURN related, length(path)
ReachedMinLength == 1
Reached(start, max_depth) ==
    UNION { { [related |-> p.end, distance |-> k] : p \in PathsOfLength(start, k) }
            : k \in ReachedMinLength..max_depth }

\* CASE distance WHEN 0 THEN 1.0 WHEN 1 THEN 0.8 WHEN 2 THEN 0.5 ELSE 0.3,
\* in tenths
Relevance(distance) ==
    CASE distance = 0 -> 10
      [] distance = 1 -> 8
      [] distance = 2 -> 5
      [] OTHER -> 3

Null == <<"null">>
NodeOf(id) == CHOOSE e \in nodes : e.id = id

NameRank(name) == CHOOSE i \in 1..Len(EntityNames) : EntityNames[i] = name

\* ORDER BY relevance DESC; rows of equal relevance come in the store's
\* order, taken here as ascending chunk id, then entity name
RowBefore(a, b) ==
    \/ a.relevance > b.relevance
    \/ /\ a.relevance = b.relevance
       /\ \/ UUID(a.chunk_id) < UUID(b.chunk_id)
          \/ /\ a.chunk_id = b.chunk_id
             /\ NameRank(a.entity_name) <= NameRank(b.entity_name)

RECURSIVE OrderRows(_)
OrderRows(R) ==
    IF R = {} THEN <<>>
    ELSE LET first == CHOOSE a \in R : \A b \in R : RowBefore(a, b)
         IN <<first>> \o OrderRows(R \ {first})

\* Neo4jClient.find_related_chunks
find_related_chunks(entity_ids, max_depth, limit) ==
    IF entity_ids = <<>> THEN <<>>
    ELSE LET starts == {id \in Range(entity_ids) : \E e \in nodes : e.id = id}
             reached == UNION {Reached(s, max_depth) : s \in starts}
             rows == { [chunk_id |-> NodeOf(x.related).source_id,
                        entity_name |-> NodeOf(x.related).name,
                        entity_type |-> NodeOf(x.related).type,
                        relevance |-> Relevance(x.distance)]
                       : x \in {y \in reached : NodeOf(y.related).source_id # Null} }
         IN Take(OrderRows(rows), limit)

(***************************************************************************)
(* Scores: exact fractions with positive denominator.                      *)
(***************************************************************************)
Frac(n, d) == [n |-> n, d |-> d]
\* a score of the stores, given in tenths: Tenths(8) is 0.8
Tenths(s) == Frac(s, 10)
FracMul(a, b) == Frac(a.n * b.n, a.d * b.d)
FracAdd(a, b) == IF a.d = b.d THEN Frac(a.n + b.n, a.d)
                 ELSE Frac(a.n * b.d + b.n * a.d, a.d * b.d)
FracEq(a, b) == a.n * b.d = b.n * a.d
FracLeq(a, b) == a.n * b.d <= b.n * a.d
FracLess(a, b) == a.n * b.d < b.n * a.d

(***************************************************************************)
(* QdrantVectorStore.                                                      *)
(***************************************************************************)
\* SearchResult(id, content, score, modality, metadata, source); the source
\* string "a+b" is kept as the sequence of its '+'-separated parts
SearchResult(id, score, source) == [id |-> id, score |-> score, source |-> source]

\* similarity scores Qdrant may report, in tenths; all pass score_threshold
ScoreThreshold == 3
VecScores == {4, 9}

\* the hits in the order Qdrant returns them: best score first
RECURSIVE OrderHits(_, _)
OrderHits(S, sc) ==
    IF S = {} THEN <<>>
    ELSE LET first == CHOOSE p \in S : \A o \in S :
                          \/ sc[p] > sc[o]
                          \/ sc[p] = sc[o] /\ UUID(p) <= UUID(o)
         IN <<SearchResult(UUID(first), Tenths(sc[first]), <<"vector">>)>>
            \o OrderHits(S \ {first}, sc)

\* QdrantVectorStore.search: some stored points whose similarity passes the
\* threshold, at most top_k of them, best first, tagged 'vector'
VectorStoreSearch(top_k, score_threshold) ==
    UNION { { OrderHits(S, sc) :
                sc \in [S -> {v \in VecScores : v >= score_threshold}] }
            : S \in {T \in SUBSET points : Cardinality(T) <= top_k} }

\* QdrantVectorStore.retrieve_by_ids: the stored points among chunk_ids, with
\* score 0.0 and source 'graph'; an id that is not stored is skipped.  Whether
\* Qdrant answers a repeated id once or once per repetition is its choice:
\* once_per_id selects the answer.
retrieve_by_ids(chunk_ids, once_per_id) ==
    IF chunk_ids = <<>> THEN <<>>
    ELSE LET kept == {i \in 1..Len(chunk_ids) :
                        /\ chunk_ids[i] \in points
                        /\ once_per_id =>
                              ~\E j \in 1..(i - 1) : chunk_ids[j] = chunk_ids[i]}
             found == KeepAt(chunk_ids, kept)
         IN [i \in 1..Len(found) |->
                SearchResult(UUID(found[i]), Tenths(0), <<"graph">>)]

(***************************************************************************)
(* HybridSearchEngine.                                                     *)
(***************************************************************************)
\* __init__: the weights are divided by their sum; a sum of 0 raises
\* ZeroDivisionError and no engine exists
HybridSearchEngine(graph_weight, keyword_weight, vector_weight, use_graph_filter) ==
    LET total_weight == graph_weight + keyword_weight + vector_weight
    IN IF total_weight = 0
       THEN [status |-> "ZeroDivisionError"]
       ELSE [status |-> "ok",
             graph_weight |-> Frac(graph_weight, total_weight),
             keyword_weight |-> Frac(keyword_weight, total_weight),
             vector_weight |-> Frac(vector_weight, total_weight),
             use_graph_filter |-> use_graph_filter,
             top_k |-> DefaultTopK,
             score_threshold |-> ScoreThreshold]

\* _graph_search: the stop words
stop_words ==
    { <<"w","h","a","t">>,
      <<"i","s">>,
      <<"t","h","e">>,
      <<"a">>,
      <<"a","n">>,
      <<"a","b","o","u","t">>,
      <<"h","o","w">>,
      <<"w","h","y">>,
      <<"w","h","e","n">>,
      <<"w","h","e","r","e">>,
      <<"w","h","o">>,
      <<"w","h","i","c","h">>,
      <<"t","h","e","i","r">>,
      <<"h","i","s">>,
      <<"h","e","r">>,
      <<"i","t","s">>,
      <<"o","u","r">>,
      <<"y","o","u","r">>,
      <<"m","y">>,
      <<"o","p","i","n","i","o","n">>,
      <<"v","i","e","w">>,
      <<"t","h","i","n","k">>,
      <<"t","h","o","u","g","h","t">>,
      <<"i","d","e","a">>,
      <<"b","e","l","i","e","f">> }

\* _graph_search, step 1 without the stop-word test
PotentialEntities_KeepsStopWords(text) ==
    LET cleaned_text == RemovePossessive(text)
        candidates == <<cleaned_text>> \o Split(cleaned_text)
    IN KeepAt(candidates, {i \in 1..Len(candidates) : Len(candidates[i]) > 2})

\* _graph_search, step 1: the full cleaned text and its words, without the
\* short ones and the stop words
PotentialEntities(text) ==
    LET cleaned_text == RemovePossessive(text)
        candidates == <<cleaned_text>> \o Split(cleaned_text)
    IN KeepAt(candidates, {i \in 1..Len(candidates) :
                              /\ Len(candidates[i]) > 2
                              /\ ToLower(candidates[i]) \notin stop_words})

\* _graph_search, steps 2 and 3
MatchedEntities(text) ==
    IF PotentialEntities(text) = <<>> THEN <<>>
    ELSE find_entities_by_name(PotentialEntities(text), TRUE, EntityLimit)

RelatedChunks(matched) ==
    IF matched = <<>> THEN <<>>
    ELSE find_related_chunks([i \in 1..Len(matched) |-> matched[i].id],
                             QueryMaxDepth, ChunkLimit)

\* relevance_map = {c['chunk_id']: c['relevance'] for c in related_chunks}:
\* a later row of the same chunk replaces an earlier one
RelevanceMap(related) ==
    [c \in {related[i].chunk_id : i \in 1..Len(related)} |->
        related[CHOOSE i \in 1..Len(related) :
                    /\ related[i].chunk_id = c
                    /\ \A j \in (i + 1)..Len(related) : related[j].chunk_id # c].relevance]

\* _graph_search, steps 4 and 5 without the score update of step 5: the
\* results are returned as retrieve_by_ids built them
GraphResults_KeepsRetrieveScore(related, once_per_id) ==
    IF related = <<>> THEN <<>>
    ELSE retrieve_by_ids([i \in 1..Len(related) |-> related[i].chunk_id], once_per_id)

\* _graph_search, steps 4 and 5
GraphResults(related, once_per_id) ==
    IF related = <<>> THEN <<>>
    ELSE LET chunk_ids == [i \in 1..Len(related) |-> related[i].chunk_id]
             search_results == retrieve_by_ids(chunk_ids, once_per_id)
             relevance_map == RelevanceMap(related)
         IN [i \in 1..Len(search_results) |->
                IF Str(search_results[i].id) \in DOMAIN relevance_map
                THEN SearchResult(search_results[i].id,
                                  Tenths(relevance_map[Str(search_results[i].id)]),
                                  <<"graph">>)
                ELSE search_results[i]]

\* _apply_graph_filter with the membership test negated: it keeps the vector
\* results that are no graph results
_apply_graph_filter_Negated(vector_res, graph_res) ==
    LET graph_chunk_ids == {Str(graph_res[i].id) : i \in 1..Len(graph_res)}
    IN KeepAt(vector_res, {i \in 1..Len(vector_res) :
                              Str(vector_res[i].id) \notin graph_chunk_ids})

\* _apply_graph_filter
_apply_graph_filter(vector_res, graph_res) ==
    LET graph_chunk_ids == {Str(graph_res[i].id) : i \in 1..Len(graph_res)}
    IN KeepAt(vector_res, {i \in 1..Len(vector_res) :
                              Str(vector_res[i].id) \in graph_chunk_ids})

\* _keyword_search: "Simplified keyword search", returns []
_keyword_search == <<>>

\* result_scores: Dict[str, tuple], kept in insertion order
DictIndex(d, key) ==
    IF \E i \in 1..Len(d) : d[i].key = key
    THEN CHOOSE i \in 1..Len(d) : d[i].key = key
    ELSE 0

\* result_scores[key] = (result, score): a new key goes last, a known key
\* keeps its place
DictPut(d, key, result, score) ==
    LET entry == [key |-> key, result |-> result, score |-> score]
    IN IF DictIndex(d, key) = 0 THEN Append(d, entry)
       ELSE [d EXCEPT ![DictIndex(d, key)] = entry]

\* _fuse_results, "Add vector results"
AddVector(eng, d, result) ==
    DictPut(d, Str(result.id), result, FracMul(result.score, eng.vector_weight))

\* _fuse_results, "Add graph results"
AddGraph(eng, d, result) ==
    LET result_id == Str(result.id)
        weighted_score == FracMul(result.score, eng.graph_weight)
        i == DictIndex(d, result_id)
    IN IF i # 0
       THEN LET existing_result ==
                    IF d[i].result.source # result.source
                    THEN [d[i].result EXCEPT !.source = Append(@, "graph")]
                    ELSE d[i].result
            IN DictPut(d, result_id, existing_result,
                       FracAdd(d[i].score, weighted_score))
       ELSE DictPut(d, result_id, result, weighted_score)

\* _fuse_results, "Add keyword results"
AddKeyword(eng, d, result) ==
    LET result_id == Str(result.id)
        weighted_score == FracMul(result.score, eng.keyword_weight)
        i == DictIndex(d, result_id)
    IN IF i # 0
       THEN DictPut(d, result_id, d[i].result, FracAdd(d[i].score, weighted_score))
       ELSE DictPut(d, result_id, result, weighted_score)

\* a sort by score that is not stable: among equal scores the entry
\* inserted last comes first
RECURSIVE SortByScoreDesc_TiesReversed(_)
SortByScoreDesc_TiesReversed(d) ==
    IF d = <<>> THEN <<>>
    ELSE LET i == CHOOSE k \in 1..Len(d) :
                     /\ \A j \in 1..Len(d) : FracLeq(d[j].score, d[k].score)
                     /\ \A j \in (k + 1)..Len(d) : FracLess(d[j].score, d[k].score)
         IN <<d[i]>> \o SortByScoreDesc_TiesReversed(KeepAt(d, (1..Len(d)) \ {i}))

\* sorted(..., key=lambda x: x[1], reverse=True): stable, greatest score first
RECURSIVE SortByScoreDesc(_)
SortByScoreDesc(d) ==
    IF d = <<>> THEN <<>>
    ELSE LET i == CHOOSE k \in 1..Len(d) :
                     /\ \A j \in 1..Len(d) : FracLeq(d[j].score, d[k].score)
                     /\ \A j \in 1..(k - 1) : FracLess(d[j].score, d[k].score)
         IN <<d[i]>> \o SortByScoreDesc(KeepAt(d, (1..Len(d)) \ {i}))

\* _fuse_results
_fuse_results(eng, vector_res, graph_res, keyword_res) ==
    LET AfterVector[i \in 0..Len(vector_res)] ==
            IF i = 0 THEN <<>> ELSE AddVector(eng, AfterVector[i - 1], vector_res[i])
        AfterGraph[i \in 0..Len(graph_res)] ==
            IF i = 0 THEN AfterVector[Len(vector_res)]
            ELSE AddGraph(eng, AfterGraph[i - 1], graph_res[i])
        AfterKeyword[i \in 0..Len(keyword_res)] ==
            IF i = 0 THEN AfterGraph[Len(graph_res)]
            ELSE AddKeyword(eng, AfterKeyword[i - 1], keyword_res[i])
        sorted_results == SortByScoreDesc(AfterKeyword[Len(keyword_res)])
    IN [i \in 1..Len(sorted_results) |->
           [sorted_results[i].result EXCEPT !.score = sorted_results[i].score]]

\* search: top_k = top_k or self.top_k (None is <<>>, a given k is <<k>>)
EffectiveTopK(eng, top_k) ==
    IF top_k = <<>> \/ top_k = <<0>> THEN eng.top_k ELSE top_k[1]

\* search, step 3 without the use_graph_filter test: graph results always
\* filter the vector list
FusionVector_IgnoresFlag(eng, vector_res, graph_res) ==
    IF graph_res # <<>>
    THEN _apply_graph_filter(vector_res, graph_res)
    ELSE vector_res

\* search, step 3 without the graph_results test: an enabled filter is
\* applied even when graph search found nothing
FusionVector_HardFilter(eng, vector_res, graph_res) ==
    IF eng.use_graph_filter
    THEN _apply_graph_filter(vector_res, graph_res)
    ELSE vector_res

\* search, step 3: the vector list that reaches fusion
FusionVector(eng, vector_res, graph_res) ==
    IF eng.use_graph_filter /\ graph_res # <<>>
    THEN _apply_graph_filter(vector_res, graph_res)
    ELSE vector_res

\* search, step 6
FinalResults(eng, fused, top_k) == PySlice(fused, EffectiveTopK(eng, top_k))

(***************************************************************************)
(* Neo4jClient._flatten_properties.                                        *)
(*                                                                         *)
(* A Python value is [kind, v, items]: kind is the name of its type, v the *)
(* text of a scalar, items the elements of a list or tuple, or the values  *)
(* of a dict (whose keys are strings).  "object" stands for an instance of *)
(* any other class, such as UUID or datetime.                              *)
(***************************************************************************)
PyValue(kind, v, items) == [kind |-> kind, v |-> v, items |-> items]
PyNone == PyValue("None", "None", <<>>)
PyObject == PyValue("object", "obj", <<>>)
PyStr(v) == PyValue("str", v, <<>>)

\* isinstance(value, (str, int, float, bool))
IsPrimitive(value) == value.kind \in {"str", "int", "float", "bool"}

\* the values json.dumps can encode: primitives, None, and lists, tuples and
\* dicts of such values; for any other object it raises TypeError
RECURSIVE JsonSerializable(_)
JsonSerializable(value) ==
    \/ IsPrimitive(value)
    \/ value.kind = "None"
    \/ /\ value.kind \in {"list", "tuple", "dict"}
       /\ \A i \in 1..Len(value.items) : JsonSerializable(value.items[i])

\* json.dumps(value): the text, or the exception raised
JsonDumps(value) ==
    IF JsonSerializable(value)
    THEN [status |-> "ok", value |-> PyStr("json")]
    ELSE [status |-> "TypeError"]

\* one pass of the loop body: what flattened[key] is set to ("ok"), that the
\* key is skipped ("skip"), or the exception raised
FlattenValue(value) ==
    IF value.kind = "None" THEN [status |-> "skip"]
    ELSE IF IsPrimitive(value) THEN [status |-> "ok", value |-> value]
    ELSE IF value.kind \in {"list", "tuple"}
         THEN IF \A i \in 1..Len(value.items) : IsPrimitive(value.items[i])
              THEN [status |-> "ok", value |-> PyValue("list", "", value.items)]
              ELSE JsonDumps(value)
    ELSE IF value.kind = "dict" THEN JsonDumps(value)
    ELSE [status |-> "ok", value |-> PyStr("repr")]

\* Neo4jClient._flatten_properties: the flattened dict, or the exception that
\* leaves the loop
_flatten_properties(properties) ==
    LET raising == {k \in DOMAIN properties :
                       FlattenValue(properties[k]).status \notin {"ok", "skip"}}
        kept == {k \in DOMAIN properties : FlattenValue(properties[k]).status = "ok"}
    IN IF raising # {}
       THEN [status |-> FlattenValue(properties[CHOOSE k \in raising : TRUE]).status]
       ELSE [status |-> "ok",
             flattened |-> [k \in kept |-> FlattenValue(properties[k]).value]]

(***************************************************************************)
(* Operations.                                                             *)
(***************************************************************************)
StoreSize(N, R, P) == Cardinality(N) + Cardinality(R) + Cardinality(P)

\* the bound of the model: a write may grow the stores up to MaxStore items;
\* a write that adds nothing is always possible
MayHold(N, R, P) ==
    \/ StoreSize(N, R, P) <= MaxStore
    \/ StoreSize(N, R, P) <= StoreSize(nodes, rels, points)

\* a property map as the store keeps it: (key, value) pairs, one per key
PropertyPairs(flattened) ==
    {[key |-> k, value |-> flattened[k]] : k \in DOMAIN flattened}

\* e += $properties: the keys given are set, the other keys stay
PlusEquals(old, new) == new \cup {p \in old : \A q \in new : q.key # p.key}

\* the node MERGE ... SET writes for an Entity without properties
NodeFor(id, name, type, source_id) ==
    [id |-> Str(id), name |-> name, type |-> type, source_id |-> Str(source_id),
     properties |-> {}]

\* params of add_entity / an element of entities_data
EntityParams(id, name, type, source_id, flattened) ==
    [NodeFor(id, name, type, source_id) EXCEPT !.properties = PropertyPairs(flattened)]

\* CREATE in the place of MERGE: a node is added whatever the store holds
MergeEntity_Creates(N, params) == N \cup {params}

\* MERGE (e:Entity {id: $id}) SET e.name = ..., e += $properties
MergeEntity(N, params) ==
    LET old == {e \in N : e.id = params.id}
        kept == UNION {e.properties : e \in old}
    IN (N \ old) \cup {[params EXCEPT !.properties = PlusEquals(kept, @)]}

\* add_entity raises when _flatten_properties does
add_entity_raises(properties) == _flatten_properties(properties).status # "ok"

\* Neo4jClient.add_entity
add_entity(id, name, type, source_id, properties) ==
    LET flat == _flatten_properties(properties)
        merged == IF flat.status = "ok"
                  THEN MergeEntity(nodes, EntityParams(id, name, type, source_id,
                                                       flat.flattened))
                  ELSE nodes
    IN /\ MayHold(merged, rels, points)
       /\ nodes' = merged
       /\ UNCHANGED <<rels, points, engine, otherVars, resultVars>>

\* the edge MERGE writes for a Relationship without properties
EdgeFor(source_entity_id, target_entity_id, type) ==
    [source |-> Str(source_entity_id), target |-> Str(target_entity_id),
     type |-> type, properties |-> {}]

\* MATCH (source), MATCH (target), MERGE (source)-[r:type]->(target)
\* SET r += $properties: without both ends nothing is written
MergeRelationship(N, R, params) ==
    LET both == /\ \E e \in N : e.id = params.source
                /\ \E e \in N : e.id = params.target
        old == {r \in R : /\ r.source = params.source
                          /\ r.target = params.target
                          /\ r.type = params.type}
        kept == UNION {r.properties : r \in old}
    IN IF both
       THEN (R \ old) \cup {[params EXCEPT !.properties = PlusEquals(kept, @)]}
       ELSE R

\* add_relationship raises when _flatten_properties does
add_relationship_raises(properties) == _flatten_properties(properties).status # "ok"

\* Neo4jClient.add_relationship
add_relationship(source_entity_id, target_entity_id, type, properties) ==
    LET flat == _flatten_properties(properties)
        merged == IF flat.status = "ok"
                  THEN MergeRelationship(nodes, rels,
                           [EdgeFor(source_entity_id, target_entity_id, type)
                              EXCEPT !.properties = PropertyPairs(flat.flattened)])
                  ELSE rels
    IN /\ MayHold(nodes, merged, points)
       /\ rels' = merged
       /\ UNCHANGED <<nodes, points, engine, otherVars, resultVars>>

\* QdrantVectorStore.add_chunk: upsert of the point str(chunk.id)
add_chunk(id) ==
    /\ MayHold(nodes, rels, points \cup {Str(id)})
    /\ points' = points \cup {Str(id)}
    /\ UNCHANGED <<nodes, rels, engine, otherVars, resultVars>>

\* the values a caller may pass as top_k: None, 0, 1
TopKArgs == {<<>>, <<0>>, <<1>>}

\* _graph_search, steps 1 to 3: the two reads of the graph store; lookups
\* counts the calls of find_entities_by_name
GraphReads(text) ==
    LET matched == MatchedEntities(text)
    IN [matched |-> matched, related |-> RelatedChunks(matched),
        lookups |-> IF PotentialEntities(text) = <<>> THEN 0 ELSE 1]

\* the ways Qdrant may answer retrieve for these rows: the choice exists only
\* when a chunk id is repeated
RetrieveChoices(related) ==
    IF \E i, j \in 1..Len(related) : i # j /\ related[i].chunk_id = related[j].chunk_id
    THEN BOOLEAN ELSE {TRUE}

\* the collaborators of the engine whose calls may raise
Collaborators == {"embedding_generator", "vector_store", "graph_client"}

\* try: ... without its except clause: the exception leaves the strategy
TryExcept_Propagates(raises, results) ==
    [raised |-> raises, results |-> IF raises THEN <<>> ELSE results]

\* try: ... return results  except Exception as e: ... return []
TryExcept(raises, results) ==
    [raised |-> FALSE, results |-> IF raises THEN <<>> ELSE results]

\* _vector_search: generate_for_query, then vector_store.search
_vector_search(faults, hits) ==
    TryExcept(faults \cap {"embedding_generator", "vector_store"} # {}, hits)

\* _graph_search, steps 1 to 3 under faults: find_entities_by_name is called
\* when there are potential entities, and raises when the graph store does
GraphClientRaises(faults, text) ==
    "graph_client" \in faults /\ PotentialEntities(text) # <<>>

\* what the two reads leave when the graph store may raise
GraphReadsUnder(faults, text) ==
    IF GraphClientRaises(faults, text)
    THEN [matched |-> <<>>, related |-> <<>>, lookups |-> 1]
    ELSE GraphReads(text)

\* _graph_search: retrieve_by_ids is called when there are related chunks,
\* and raises when the vector store does
_graph_search(faults, text, related, once_per_id) ==
    TryExcept(\/ GraphClientRaises(faults, text)
              \/ related # <<>> /\ "vector_store" \in faults,
              GraphResults(related, once_per_id))

\* HybridSearchEngine.search(query, top_k) when the collaborators in faults
\* raise: vector search (hits is what Qdrant answers), graph search, graph
\* filter, keyword search, fusion, top-k
search(faults) ==
    /\ engine.status = "ok"
    /\ \E text \in QueryTexts :
       \E reads \in {GraphReadsUnder(faults, text)} :
       \E once_per_id \in RetrieveChoices(reads.related) :
       \E graph \in {_graph_search(faults, text, reads.related, once_per_id)} :
       \E hits \in VectorStoreSearch(engine.top_k, engine.score_threshold) :
       \E vector \in {_vector_search(faults, hits)} :
       \E vector_res \in {FusionVector(engine, vector.results, graph.results)} :
       \E fused \in {_fuse_results(engine, vector_res, graph.results, _keyword_search)} :
       \E top_k \in TopKArgs :
          /\ call' = [op |-> "search", text |-> text, top_k |-> top_k,
                       lookups |-> reads.lookups, faults |-> faults,
                       raised |-> vector.raised \/ graph.raised]
          /\ vector_results' = vector.results
          /\ matched_entities' = reads.matched
          /\ related_chunks' = reads.related
          /\ graph_results' = graph.results
          /\ fusion_vector' = vector_res
          /\ fused_results' = fused
          /\ final_results' = FinalResults(engine, fused, top_k)
          /\ UNCHANGED <<storeVars, engine, otherVars, returned>>

\* HybridSearchEngine.search(query, top_k), no collaborator raising
Search == search({})

\* the writes of the ingestion; call keeps the name of the last operation, so
\* that what a search left in the result variables is read only while the
\* stores are as the search saw them
AddEntity ==
    \E o \in EntityObjects, type \in EntityTypes :
        /\ add_entity(o.id, o.name, type, o.source_id, o.properties)
        /\ call' = [op |-> "add_entity"]

AddRelationship ==
    \E s \in EntityIds, t \in EntityIds, type \in RelTypes :
        /\ add_relationship(s, t, type, NoProperties)
        /\ call' = [op |-> "add_relationship"]

AddChunk ==
    \E id \in ChunkIds :
        /\ add_chunk(id)
        /\ call' = [op |-> "add_chunk"]

NoCall == [op |-> "none"]

\* A store left by an earlier ingestion: Ann (chunk 1) -- Bob (chunk 1) --
\* Bob (chunk 2), both chunks stored.  It is what add_entity, add_relationship
\* and add_chunk leave after seven writes.
ChainStore ==
    [nodes |-> { NodeFor(1, EntityNames[1], "Person", 1),
                 NodeFor(2, EntityNames[2], "Person", 1),
                 NodeFor(3, EntityNames[2], "Person", 2) },
     rels |-> { EdgeFor(1, 2, "WORKS_FOR"), EdgeFor(3, 2, "WORKS_FOR") },
     points |-> {Str(1), Str(2)}]
EmptyStore == [nodes |-> {}, rels |-> {}, points |-> {}]

\* the pipeline connects to the two databases, empty or left by an earlier
\* run, and builds the engine with the default weights
Init ==
    /\ \E st \in {EmptyStore, ChainStore} :
          /\ nodes = st.nodes
          /\ rels = st.rels
          /\ points = st.points
    /\ engine \in {HybridSearchEngine(3, 2, 5, f) : f \in BOOLEAN}
    /\ call = NoCall
    /\ vector_results = <<>>
    /\ matched_entities = <<>>
    /\ related_chunks = <<>>
    /\ graph_results = <<>>
    /\ fusion_vector = <<>>
    /\ fused_results = <<>>
    /\ final_results = <<>>
    /\ returned = <<>>
    /\ keyword_searcher = NoIndex
    /\ sessions = <<>>
    /\ executor = NoExecutor

Next == AddEntity \/ AddRelationship \/ AddChunk \/ Search

Spec == Init /\ [][Next]_vars

(***************************************************************************)
(* The constructor and the two list helpers called on their own, on        *)
(* arguments drawn from bounded sets.                                      *)
(***************************************************************************)
\* (graph_weight, keyword_weight, vector_weight) in tenths: every triple of
\* zeros and ones, and the defaults 0.3, 0.2, 0.5
WeightTriples == ({0, 1} \X {0, 1} \X {0, 1}) \cup {<<3, 2, 5>>}

\* the results each strategy may hand to fusion
VectorElems == {SearchResult(id, Tenths(sc), <<"vector">>) : id \in ChunkIds, sc \in {4, 8}}
GraphElems == {SearchResult(id, Tenths(sc), <<"graph">>) : id \in ChunkIds, sc \in {5, 8}}
KeywordElems == {SearchResult(id, Tenths(sc), <<"keyword">>) : id \in ChunkIds, sc \in {8}}

SeqsUpTo(S, n) == UNION {[1..k -> S] : k \in 0..n}

InitUnit ==
    /\ nodes = {}
    /\ rels = {}
    /\ points = {}
    /\ engine = [status |-> "none"]
    /\ vector_results \in SeqsUpTo(VectorElems, MaxLen)
    /\ graph_results \in SeqsUpTo(GraphElems, MaxLen - Len(vector_results))
    /\ call \in { [op |-> "unit", weights |-> w, use_graph_filter |-> TRUE,
                   keyword |-> k, done |-> {}]
                  : w \in WeightTriples,
                    k \in SeqsUpTo(KeywordElems,
                                   MaxLen - Len(vector_results) - Len(graph_results)) }
    /\ matched_entities = <<>>
    /\ related_chunks = <<>>
    /\ fusion_vector = <<>>
    /\ fused_results = <<>>
    /\ final_results = <<>>
    /\ returned = <<>>
    /\ keyword_searcher = NoIndex
    /\ sessions = <<>>
    /\ executor = NoExecutor

\* HybridSearchEngine(graph_weight=.., keyword_weight=.., vector_weight=..)
Construct ==
    /\ engine.status = "none"
    /\ engine' = HybridSearchEngine(call.weights[1], call.weights[2], call.weights[3],
                                    call.use_graph_filter)
    /\ UNCHANGED <<storeVars, searchVars, otherVars>>

\* engine._apply_graph_filter(vector_results, graph_results)
CallApplyGraphFilter ==
    /\ engine.status = "ok"
    /\ "filter" \notin call.done
    /\ fusion_vector' = _apply_graph_filter(vector_results, graph_results)
    /\ call' = [call EXCEPT !.done = @ \cup {"filter"}]
    /\ UNCHANGED <<storeVars, engine, otherVars, vector_results, matched_entities,
                   related_chunks, graph_results, fused_results, final_results,
                   returned>>

\* engine._fuse_results(vector_results, graph_results, keyword_results)
CallFuseResults ==
    /\ engine.status = "ok"
    /\ "fuse" \notin call.done
    /\ fused_results' = _fuse_results(engine, vector_results, graph_results, call.keyword)
    /\ call' = [call EXCEPT !.done = @ \cup {"fuse"}]
    /\ UNCHANGED <<storeVars, engine, otherVars, vector_results, matched_entities,
                   related_chunks, graph_results, fusion_vector, final_results,
                   returned>>

NextUnit == Construct \/ CallApplyGraphFilter \/ CallFuseResults

SpecUnit == InitUnit /\ [][NextUnit]_vars

(***************************************************************************)
(* GraphSearcher._extract_entity_names, called on its own.                 *)
(***************************************************************************)
\* skip_words: "Common question words to skip"
skip_words ==
    { <<"W","h","o">>,
      <<"W","h","a","t">>,
      <<"W","h","e","r","e">>,
      <<"W","h","e","n">>,
      <<"W","h","y">>,
      <<"H","o","w">>,
      <<"T","e","l","l">>,
      <<"S","h","o","w">>,
      <<"F","i","n","d">> }

\* words[i] and words[i][0].isupper() and words[i] not in skip_words
StartsEntity(word) ==
    /\ word # <<>>
    /\ IsUpper(word[1])
    /\ word \notin skip_words

\* the inner while loop: the first j at or after j0 that is past the end of
\* words or whose word cannot continue an entity
RECURSIVE RunEnd(_, _)
RunEnd(words, j0) ==
    IF j0 <= Len(words) /\ StartsEntity(words[j0])
    THEN RunEnd(words, j0 + 1)
    ELSE j0

\* ' '.join(entity_words)
JoinWords(entity_words) ==
    LET F[i \in 0..Len(entity_words)] ==
            IF i = 0 THEN <<>>
            ELSE IF i = 1 THEN entity_words[1]
            ELSE F[i - 1] \o <<" ">> \o entity_words[i]
    IN F[Len(entity_words)]

\* what one run of entity words appends to entities, were words of any
\* length appended
RunEntities_KeepsShort(entity_words) ==
    IF Len(entity_words) > 1
    THEN <<JoinWords(entity_words)>> \o entity_words
    ELSE entity_words

\* what one run of entity words appends to entities
RunEntities(entity_words) ==
    IF Len(entity_words) > 1
    THEN <<JoinWords(entity_words)>>
         \o KeepAt(entity_words, {k \in 1..Len(entity_words) : Len(entity_words[k]) > 2})
    ELSE IF Len(entity_words[1]) > 2 THEN <<entity_words[1]>> ELSE <<>>

\* the outer while loop from position i: the list entities
RECURSIVE EntitiesFrom(_, _)
EntitiesFrom(words, i) ==
    IF i > Len(words) THEN <<>>
    ELSE IF StartsEntity(words[i])
         THEN LET j == RunEnd(words, i + 1)
              IN RunEntities(SubSeq(words, i, j - 1)) \o EntitiesFrom(words, j)
         ELSE EntitiesFrom(words, i + 1)

\* the deduplication loop left out: entities is returned as it is
Unique_KeepsAll(entities) == entities

\* "Remove duplicates while preserving order": seen / unique_entities
Unique(entities) ==
    KeepAt(entities, {k \in 1..Len(entities) :
                         \A h \in 1..(k - 1) : entities[h] # entities[k]})

\* GraphSearcher._extract_entity_names
_extract_entity_names(text) == Unique(EntitiesFrom(Split(text), 1))

\* the tokens of the texts: a skip word, a short and two long capitalized
\* words, a lower-case word
Tokens ==
    { <<"W","h","o">>, <<"N","g">>, <<"A","n","n">>, <<"B","o","b">>, <<"a","n","n">> }

\* the texts: up to MaxTokens tokens joined by single blanks, the same with
\* blanks around and doubled between two tokens, and blank texts
ExtractTexts ==
    {JoinWords(ws) : ws \in SeqsUpTo(Tokens, MaxTokens)}
    \cup {<<" ">> \o a \o <<" ", " ">> \o b \o <<" ">> : a, b \in Tokens}
    \cup {<<" ">>, <<" ", " ">>}

InitExtract ==
    /\ nodes = {}
    /\ rels = {}
    /\ points = {}
    /\ engine = [status |-> "none"]
    /\ call \in {[op |-> "_extract_entity_names", text |-> t, done |-> FALSE]
                  : t \in ExtractTexts}
    /\ vector_results = <<>>
    /\ matched_entities = <<>>
    /\ related_chunks = <<>>
    /\ graph_results = <<>>
    /\ fusion_vector = <<>>
    /\ fused_results = <<>>
    /\ final_results = <<>>
    /\ returned = <<>>
    /\ keyword_searcher = NoIndex
    /\ sessions = <<>>
    /\ executor = NoExecutor

\* searcher._extract_entity_names(text)
CallExtractEntityNames ==
    /\ call.op = "_extract_entity_names"
    /\ ~call.done
    /\ returned' = _extract_entity_names(call.text)
    /\ call' = [call EXCEPT !.done = TRUE]
    /\ UNCHANGED <<storeVars, engine, otherVars, vector_results, matched_entities,
                   related_chunks, graph_results, fusion_vector, fused_results,
                   final_results>>

NextExtract == CallExtractEntityNames

SpecExtract == InitExtract /\ [][NextExtract]_vars

(***************************************************************************)
(* Neo4jClient._flatten_properties, called on its own.                     *)
(***************************************************************************)
\* the elements of lists and the values of dicts
PyItems ==
    { PyValue("str", "s", <<>>), PyValue("int", "1", <<>>),
      PyValue("float", "1.5", <<>>), PyValue("bool", "True", <<>>),
      PyNone, PyObject }

\* the property values: the items, lists of up to MaxItems items, tuples and
\* dicts of at most one item
PropertyValues ==
    PyItems
    \cup {PyValue("list", "", items) : items \in SeqsUpTo(PyItems, MaxItems)}
    \cup {PyValue("tuple", "", items) : items \in SeqsUpTo(PyItems, 1)}
    \cup {PyValue("dict", "", items) : items \in SeqsUpTo(PyItems, 1)}

PropertyKeys == {"a", "b"}

\* the property maps: Dict[str, Any]
PropertyMaps == UNION {[K -> PropertyValues] : K \in SUBSET PropertyKeys}

InitFlatten ==
    /\ nodes = {}
    /\ rels = {}
    /\ points = {}
    /\ engine = [status |-> "none"]
    /\ call \in {[op |-> "_flatten_properties", properties |-> m, done |-> FALSE]
                  : m \in PropertyMaps}
    /\ vector_results = <<>>
    /\ matched_entities = <<>>
    /\ related_chunks = <<>>
    /\ graph_results = <<>>
    /\ fusion_vector = <<>>
    /\ fused_results = <<>>
    /\ final_results = <<>>
    /\ returned = <<>>
    /\ keyword_searcher = NoIndex
    /\ sessions = <<>>
    /\ executor = NoExecutor

\* Neo4jClient._flatten_properties(properties)
CallFlattenProperties ==
    /\ call.op = "_flatten_properties"
    /\ ~call.done
    /\ returned' = _flatten_properties(call.properties)
    /\ call' = [call EXCEPT !.done = TRUE]
    /\ UNCHANGED <<storeVars, engine, otherVars, vector_results, matched_entities,
                   related_chunks, graph_results, fusion_vector, fused_results,
                   final_results>>

NextFlatten == CallFlattenProperties

SpecFlatten == InitFlatten /\ [][NextFlatten]_vars

(***************************************************************************)
(* Neo4jClient: the batch writes, and the graph written on its own by      *)
(* sequences of add_entity, add_entities_batch, add_relationship and       *)
(* add_relationships_batch calls.                                          *)
(***************************************************************************)
\* the test left out: every item is written as one that has properties
HasProperties_Always(flattened) == TRUE

\* "if flattened_props:" / "if flattened:": the flattened map has a key
HasProperties(flattened) == DOMAIN flattened # {}

\* a statement handed to session.run: whether its text holds the clause
\* "+= $properties" (or "+= entity.properties", "+= rel.properties"), and
\* for each item it writes whether the parameters of the item hold the key
\* 'properties'
Statement(properties_clause, items, with_parameter) ==
    [properties_clause |-> properties_clause,
     rows |-> [i \in 1..Len(items) |->
                 [item |-> items[i], properties_parameter |-> with_parameter]]]

\* the statement of add_entity / add_relationship for one item
SingleStatement(item) ==
    LET flattened == _flatten_properties(item.properties).flattened
    IN <<Statement(HasProperties(flattened), <<item>>, HasProperties(flattened))>>

\* the statements of a batch write for the items of one list (one type):
\* the items without properties, then the items with properties, a
\* statement being run only for a group that is not empty
GroupStatements(items) ==
    LET flattened == [i \in 1..Len(items) |->
                        _flatten_properties(items[i].properties).flattened]
        without == KeepAt(items, {i \in 1..Len(items) : ~HasProperties(flattened[i])})
        with == KeepAt(items, {i \in 1..Len(items) : HasProperties(flattened[i])})
    IN (IF without = <<>> THEN <<>> ELSE <<Statement(FALSE, without, FALSE)>>)
       \o (IF with = <<>> THEN <<>> ELSE <<Statement(TRUE, with, TRUE)>>)

\* entities_data of the two runs, the entities without properties first
EntitiesData(entities) ==
    LET flattened == [i \in 1..Len(entities) |->
                        _flatten_properties(entities[i].properties).flattened]
        data == [i \in 1..Len(entities) |->
                   EntityParams(entities[i].id, entities[i].name,
                                entities[i].entity_type, entities[i].source_id,
                                flattened[i])]
    IN KeepAt(data, {i \in 1..Len(entities) : ~HasProperties(flattened[i])})
       \o KeepAt(data, {i \in 1..Len(entities) : HasProperties(flattened[i])})

\* UNWIND $entities AS entity MERGE ...: one merge per element, in order
RECURSIVE MergeEntities(_, _)
MergeEntities(N, entities_data) ==
    IF entities_data = <<>> THEN N
    ELSE MergeEntities(MergeEntity(N, Head(entities_data)), Tail(entities_data))

\* add_entities_batch raises when _flatten_properties does, before any run
add_entities_batch_raises(entities) ==
    \E i \in 1..Len(entities) : add_entity_raises(entities[i].properties)

\* the nodes after Neo4jClient.add_entities_batch
EntitiesBatch(N, entities) ==
    IF entities = <<>> \/ add_entities_batch_raises(entities)
    THEN N
    ELSE MergeEntities(N, EntitiesData(entities))

\* Neo4jClient.add_entities_batch
add_entities_batch(entities) ==
    /\ MayHold(EntitiesBatch(nodes, entities), rels, points)
    /\ nodes' = EntitiesBatch(nodes, entities)
    /\ UNCHANGED <<rels, points, engine, otherVars, resultVars>>

\* the keys of by_type, in insertion order
by_type_keys(relationships) ==
    KeepAt([i \in 1..Len(relationships) |-> relationships[i].relationship_type],
           {i \in 1..Len(relationships) :
               \A j \in 1..(i - 1) : relationships[j].relationship_type
                                     # relationships[i].relationship_type})

\* by_type[rel_type]
by_type(relationships, rel_type) ==
    KeepAt(relationships, {i \in 1..Len(relationships) :
                              relationships[i].relationship_type = rel_type})

\* rels_data of the two runs of one type, without properties first
RelsData(group) ==
    LET flattened == [i \in 1..Len(group) |->
                        _flatten_properties(group[i].properties).flattened]
        data == [i \in 1..Len(group) |->
                   [EdgeFor(group[i].source_entity_id, group[i].target_entity_id,
                            group[i].relationship_type)
                      EXCEPT !.properties = PropertyPairs(flattened[i])]]
    IN KeepAt(data, {i \in 1..Len(group) : ~HasProperties(flattened[i])})
       \o KeepAt(data, {i \in 1..Len(group) : HasProperties(flattened[i])})

\* UNWIND $relationships AS rel MATCH ... MERGE ...: one merge per element
RECURSIVE MergeRelationships(_, _, _)
MergeRelationships(N, R, rels_data) ==
    IF rels_data = <<>> THEN R
    ELSE MergeRelationships(N, MergeRelationship(N, R, Head(rels_data)),
                            Tail(rels_data))

\* the loop over by_type.items(): the properties of a type are flattened
\* when its turn comes, so a raise leaves the runs of the earlier types in
\* the graph; ran is the relationships whose run was made, statements the
\* statements run
RECURSIVE RelationshipsLoop(_, _, _, _, _)
RelationshipsLoop(N, R, relationships, keys, done) ==
    IF keys = <<>>
    THEN [rels |-> R, raised |-> FALSE, ran |-> done.ran, statements |-> done.statements]
    ELSE LET group == by_type(relationships, Head(keys))
         IN IF \E i \in 1..Len(group) : add_relationship_raises(group[i].properties)
            THEN [rels |-> R, raised |-> TRUE, ran |-> done.ran,
                  statements |-> done.statements]
            ELSE RelationshipsLoop(N, MergeRelationships(N, R, RelsData(group)),
                                   relationships, Tail(keys),
                                   [ran |-> done.ran \cup Range(group),
                                    statements |-> done.statements
                                                   \o GroupStatements(group)])

\* the outcome of Neo4jClient.add_relationships_batch
RelationshipsBatch(N, R, relationships) ==
    RelationshipsLoop(N, R, relationships, by_type_keys(relationships),
                      [ran |-> {}, statements |-> <<>>])

\* Neo4jClient.add_relationships_batch
add_relationships_batch(relationships) ==
    /\ MayHold(nodes, RelationshipsBatch(nodes, rels, relationships).rels, points)
    /\ rels' = RelationshipsBatch(nodes, rels, relationships).rels
    /\ UNCHANGED <<nodes, points, engine, otherVars, resultVars>>

\* a value json.dumps refuses, inside a list
\* add_entity called on each element of the list in order; the call that
\* raises ends the loop
RECURSIVE EntitiesOneAtATime(_, _)
EntitiesOneAtATime(N, entities) ==
    IF entities = <<>> \/ add_entity_raises(Head(entities).properties)
    THEN N
    ELSE LET e == Head(entities)
             flat == _flatten_properties(e.properties)
         IN EntitiesOneAtATime(
                MergeEntity(N, EntityParams(e.id, e.name, e.entity_type,
                                            e.source_id, flat.flattened)),
                Tail(entities))

\* add_relationship called on each element of the list in order; the call
\* that raises ends the loop
RECURSIVE RelationshipsOneAtATime(_, _, _)
RelationshipsOneAtATime(N, R, relationships) ==
    IF relationships = <<>> \/ add_relationship_raises(Head(relationships).properties)
    THEN R
    ELSE LET r == Head(relationships)
             flat == _flatten_properties(r.properties)
         IN RelationshipsOneAtATime(
                N,
                MergeRelationship(N, R,
                    [EdgeFor(r.source_entity_id, r.target_entity_id,
                             r.relationship_type)
                       EXCEPT !.properties = PropertyPairs(flat.flattened)]),
                Tail(relationships))

Unserializable == PyValue("list", "", <<PyObject>>)

\* the Entity objects written to the graph: two with the same id, one of
\* them with properties, one with another id, one whose properties cannot
\* be flattened
GraphEntityObjects ==
    { [id |-> 1, name |-> EntityNames[1], entity_type |-> "Person", source_id |-> 1,
       properties |-> [k \in {"a"} |-> PyNone]],
      [id |-> 1, name |-> EntityNames[2], entity_type |-> "Person", source_id |-> 2,
       properties |-> [k \in {"a"} |-> PyStr("s")]],
      [id |-> 2, name |-> EntityNames[2], entity_type |-> "Person", source_id |-> 1,
       properties |-> NoProperties],
      [id |-> 3, name |-> EntityNames[1], entity_type |-> "Person", source_id |-> 1,
       properties |-> [k \in {"a"} |-> Unserializable]] }

\* the Relationship objects written to the graph: two with different ids and
\* the same ends and type, one of them with properties, and two of another
\* type, one whose properties cannot be flattened and one whose only
\* property is None
GraphRelationshipObjects ==
    { [id |-> 1, source_entity_id |-> 1, target_entity_id |-> 2,
       relationship_type |-> "WORKS_FOR", properties |-> NoProperties],
      [id |-> 2, source_entity_id |-> 1, target_entity_id |-> 2,
       relationship_type |-> "WORKS_FOR",
       properties |-> [k \in {"a"} |-> PyStr("s")]],
      [id |-> 3, source_entity_id |-> 2, target_entity_id |-> 1,
       relationship_type |-> "RELATED_TO",
       properties |-> [k \in {"a"} |-> Unserializable]],
      [id |-> 4, source_entity_id |-> 2, target_entity_id |-> 1,
       relationship_type |-> "RELATED_TO",
       properties |-> [k \in {"a"} |-> PyNone]] }

\* the lists of at most n different objects of S
Batches(S, n) ==
    {b \in SeqsUpTo(S, n) : \A i \in 1..Len(b) : \A j \in 1..Len(b) : b[i] = b[j] => i = j}

\* the relationships of ran that found both their ends in N
Matched(N, ran) ==
    {r.id : r \in {x \in ran : /\ Str(x.source_entity_id) \in {e.id : e \in N}
                                /\ Str(x.target_entity_id) \in {e.id : e \in N}}}

\* no call yet; written and rel_written are the ids of the entities and of
\* the relationships the calls so far have written
InitGraph ==
    /\ nodes = {}
    /\ rels = {}
    /\ points = {}
    /\ engine = HybridSearchEngine(3, 2, 5, TRUE)
    /\ call = [op |-> "none", entities |-> <<>>, relationships |-> <<>>,
               raised |-> FALSE, written |-> {}, rel_written |-> {},
               statements |-> <<>>]
    /\ vector_results = <<>>
    /\ matched_entities = <<>>
    /\ related_chunks = <<>>
    /\ graph_results = <<>>
    /\ fusion_vector = <<>>
    /\ fused_results = <<>>
    /\ final_results = <<>>
    /\ returned = <<>>
    /\ keyword_searcher = NoIndex
    /\ sessions = <<>>
    /\ executor = NoExecutor

\* graph_client.add_entity(entity)
GraphAddEntity ==
    \E o \in GraphEntityObjects :
        /\ add_entity(o.id, o.name, o.entity_type, o.source_id, o.properties)
        /\ call' = [call EXCEPT
                      !.op = "add_entity", !.entities = <<o>>, !.relationships = <<>>,
                      !.raised = add_entity_raises(o.properties),
                      !.statements = IF add_entity_raises(o.properties)
                                     THEN <<>> ELSE SingleStatement(o),
                      !.written = IF add_entity_raises(o.properties)
                                  THEN @ ELSE @ \cup {o.id}]

\* graph_client.add_entities_batch(entities)
GraphAddEntitiesBatch ==
    \E entities \in Batches(GraphEntityObjects, MaxBatch) :
        /\ add_entities_batch(entities)
        /\ call' = [call EXCEPT
                      !.op = "add_entities_batch", !.entities = entities,
                      !.relationships = <<>>,
                      !.raised = add_entities_batch_raises(entities),
                      !.statements = IF add_entities_batch_raises(entities)
                                     THEN <<>> ELSE GroupStatements(entities),
                      !.written = IF add_entities_batch_raises(entities)
                                  THEN @
                                  ELSE @ \cup {entities[i].id : i \in 1..Len(entities)}]

\* graph_client.add_relationship(relationship)
GraphAddRelationship ==
    \E r \in GraphRelationshipObjects :
        /\ add_relationship(r.source_entity_id, r.target_entity_id,
                            r.relationship_type, r.properties)
        /\ call' = [call EXCEPT
                      !.op = "add_relationship", !.entities = <<>>,
                      !.relationships = <<r>>,
                      !.raised = add_relationship_raises(r.properties),
                      !.statements = IF add_relationship_raises(r.properties)
                                     THEN <<>> ELSE SingleStatement(r),
                      !.rel_written = IF add_relationship_raises(r.properties)
                                      THEN @ ELSE @ \cup Matched(nodes, {r})]

\* graph_client.add_relationships_batch(relationships)
GraphAddRelationshipsBatch ==
    \E relationships \in Batches(GraphRelationshipObjects, MaxBatch) :
        /\ add_relationships_batch(relationships)
        /\ call' = [call EXCEPT
                      !.op = "add_relationships_batch", !.entities = <<>>,
                      !.relationships = relationships,
                      !.raised = RelationshipsBatch(nodes, rels, relationships).raised,
                      !.statements =
                          RelationshipsBatch(nodes, rels, relationships).statements,
                      !.rel_written =
                          @ \cup Matched(nodes,
                                 RelationshipsBatch(nodes, rels, relationships).ran)]

NextGraph ==
    \/ GraphAddEntity
    \/ GraphAddEntitiesBatch
    \/ GraphAddRelationship
    \/ GraphAddRelationshipsBatch

SpecGraph == InitGraph /\ [][NextGraph]_vars

(***************************************************************************)
(* Neo4jClient.find_entities_by_name, called on its own on a graph left by *)
(* earlier writes.                                                         *)
(***************************************************************************)
\* ids of the entities in the graph
FindIds == 1..3

\* the graphs: each id is absent or names one of EntityNames
FindStores ==
    { {NodeFor(id, EntityNames[pick[id]], "Person", 1) : id \in {i \in FindIds : pick[i] # 0}}
      : pick \in [FindIds -> 0..Len(EntityNames)] }

\* candidate names: another case, a part of a name, a name, no name
CandidateNames ==
    { <<"a","n","n">>, <<"B","O">>, <<"B","o","b">>, <<"x">> }

\* values of limit
FindLimits == {0, 1, 2, EntityLimit}

InitFind ==
    /\ nodes \in FindStores
    /\ rels = {}
    /\ points = {}
    /\ engine = HybridSearchEngine(3, 2, 5, TRUE)
    /\ call \in [op : {"find_entities_by_name"},
                 entity_names : SeqsUpTo(CandidateNames, MaxNames),
                 fuzzy : BOOLEAN, limit : FindLimits, done : {FALSE}]
    /\ vector_results = <<>>
    /\ matched_entities = <<>>
    /\ related_chunks = <<>>
    /\ graph_results = <<>>
    /\ fusion_vector = <<>>
    /\ fused_results = <<>>
    /\ final_results = <<>>
    /\ returned = <<>>
    /\ keyword_searcher = NoIndex
    /\ sessions = <<>>
    /\ executor = NoExecutor

\* graph_client.find_entities_by_name(entity_names, fuzzy, limit)
CallFindEntitiesByName ==
    /\ ~call.done
    /\ returned' = find_entities_by_name(call.entity_names, call.fuzzy, call.limit)
    /\ call' = [call EXCEPT !.done = TRUE]
    /\ UNCHANGED <<storeVars, engine, otherVars, vector_results, matched_entities,
                   related_chunks, graph_results, fusion_vector, fused_results,
                   final_results>>

NextFind == CallFindEntitiesByName

SpecFind == InitFind /\ [][NextFind]_vars

(***************************************************************************)
(* HybridSearchEngine.search while collaborators raise.                    *)
(***************************************************************************)
InitFaults == Init

\* search(query, top_k) with at least one collaborator raising
FaultySearch == \E faults \in (SUBSET Collaborators) \ {{}} : search(faults)

NextFaults == FaultySearch \/ AddChunk

SpecFaults == InitFaults /\ [][NextFaults]_vars

(***************************************************************************)
(* HybridSearchEngine.search step by step, while calls of collaborators    *)
(* may never return.  search runs on the caller's thread: _vector_search,  *)
(* then _graph_search, then filter, keyword search, fusion and the slice;  *)
(* call.pc is the statement the thread is at, call.hangs the collaborators *)
(* whose calls never return.  Nothing writes to the stores while the       *)
(* search runs, so what each call answers is fixed when search is called:  *)
(* call.answers holds it, and a step hands over its part when it returns.  *)
(***************************************************************************)
NoAnswers ==
    [hits |-> <<>>, potential |-> <<>>, matched |-> <<>>, related |-> <<>>,
     graph |-> <<>>, vector_res |-> <<>>, fused |-> <<>>, final |-> <<>>]

\* what the calls of search(text, top_k) answer on the stores as they are
Answers(text, top_k) ==
    { [hits |-> _vector_search({}, hits).results,
       potential |-> PotentialEntities(text),
       matched |-> reads.matched,
       related |-> reads.related,
       graph |-> graph_res,
       vector_res |-> FusionVector(engine, hits, graph_res),
       fused |-> _fuse_results(engine, FusionVector(engine, hits, graph_res),
                               graph_res, _keyword_search),
       final |-> FinalResults(engine,
                     _fuse_results(engine, FusionVector(engine, hits, graph_res),
                                   graph_res, _keyword_search), top_k)]
      : hits \in VectorStoreSearch(engine.top_k, engine.score_threshold),
        reads \in {GraphReads(text)},
        graph_res \in {_graph_search({}, text, GraphReads(text).related, once_per_id).results
                       : once_per_id \in RetrieveChoices(GraphReads(text).related)} }

InitSteps ==
    /\ \E st \in {EmptyStore, ChainStore} :
          /\ nodes = st.nodes
          /\ rels = st.rels
          /\ points = st.points
    /\ engine \in {HybridSearchEngine(3, 2, 5, f) : f \in BOOLEAN}
    /\ call = [op |-> "none", text |-> <<>>, top_k |-> <<>>, hangs |-> {},
               pc |-> "idle", answers |-> NoAnswers]
    /\ vector_results = <<>>
    /\ matched_entities = <<>>
    /\ related_chunks = <<>>
    /\ graph_results = <<>>
    /\ fusion_vector = <<>>
    /\ fused_results = <<>>
    /\ final_results = <<>>
    /\ returned = <<>>
    /\ keyword_searcher = NoIndex
    /\ sessions = <<>>
    /\ executor = NoExecutor

\* engine.search(query, top_k) is called: the thread enters _vector_search
BeginSearch ==
    /\ engine.status = "ok"
    /\ call.pc \in {"idle", "returned"}
    /\ \E text \in QueryTexts, top_k \in TopKArgs, hangs \in SUBSET Collaborators :
       \E answers \in Answers(text, top_k) :
          call' = [op |-> "search", text |-> text, top_k |-> top_k,
                   hangs |-> hangs, pc |-> "_vector_search", answers |-> answers]
    /\ vector_results' = <<>>
    /\ matched_entities' = <<>>
    /\ related_chunks' = <<>>
    /\ graph_results' = <<>>
    /\ fusion_vector' = <<>>
    /\ fused_results' = <<>>
    /\ final_results' = <<>>
    /\ UNCHANGED <<storeVars, engine, otherVars, returned>>

\* _vector_search returns: generate_for_query and vector_store.search have
\* both returned; the thread enters _graph_search
VectorSearchReturns ==
    /\ call.pc = "_vector_search"
    /\ call.hangs \cap {"embedding_generator", "vector_store"} = {}
    /\ vector_results' = call.answers.hits
    /\ call' = [call EXCEPT !.pc = "_graph_search"]
    /\ UNCHANGED <<storeVars, engine, otherVars, matched_entities, related_chunks,
                   graph_results, fusion_vector, fused_results, final_results,
                   returned>>

\* _graph_search returns: every call it made has returned (the graph store
\* is called when there are potential entities, retrieve_by_ids when there
\* are related chunks)
GraphSearchReturns ==
    /\ call.pc = "_graph_search"
    /\ "graph_client" \in call.hangs => call.answers.potential = <<>>
    /\ "vector_store" \in call.hangs => call.answers.related = <<>>
    /\ matched_entities' = call.answers.matched
    /\ related_chunks' = call.answers.related
    /\ graph_results' = call.answers.graph
    /\ call' = [call EXCEPT !.pc = "fuse"]
    /\ UNCHANGED <<storeVars, engine, otherVars, vector_results, fusion_vector,
                   fused_results, final_results, returned>>

\* search, steps 3 to 6: graph filter, keyword search, fusion, slice, return
SearchReturns ==
    /\ call.pc = "fuse"
    /\ fusion_vector' = call.answers.vector_res
    /\ fused_results' = call.answers.fused
    /\ final_results' = call.answers.final
    /\ call' = [call EXCEPT !.pc = "returned"]
    /\ UNCHANGED <<storeVars, engine, otherVars, vector_results, matched_entities,
                   related_chunks, graph_results, returned>>

NextSteps ==
    \/ BeginSearch
    \/ VectorSearchReturns
    \/ GraphSearchReturns
    \/ SearchReturns

\* the thread that runs search is scheduled whenever it can take a step
SpecSteps ==
    /\ InitSteps
    /\ [][NextSteps]_vars
    /\ WF_vars(VectorSearchReturns)
    /\ WF_vars(GraphSearchReturns)
    /\ WF_vars(SearchReturns)

(***************************************************************************)
(* Two threads that call search on the same engine.  Each call of search   *)
(* has its own frame of local variables (vector_results, graph_results,    *)
(* fused_results, final_results): here each of these variables is a        *)
(* function from frames to values, and call[t] is what thread t passed,    *)
(* where it is, what the stores answered it and what search returned.      *)
(***************************************************************************)
Threads == {1, 2}

\* every call of search writes its locals into the frame of that call
\* replaced by one place shared by all calls, as fields of the engine are
Frame_Shared(t) == 1

\* the frame that holds the locals of the search thread t runs
Frame(t) == t

\* the values a thread passes as top_k
ThreadTopK == {<<>>, <<1>>}

\* a thread that has not called search
IdleThread ==
    [pc |-> "idle", text |-> <<>>, top_k |-> <<>>, hits |-> <<>>,
     once_per_id |-> TRUE, seen |-> <<>>, result |-> <<>>]

InitThreads ==
    /\ nodes = ChainStore.nodes
    /\ rels = ChainStore.rels
    /\ points = ChainStore.points
    /\ engine \in {HybridSearchEngine(3, 2, 5, f) : f \in BOOLEAN}
    /\ call = [t \in Threads |-> IdleThread]
    /\ vector_results = [f \in Threads |-> <<>>]
    /\ matched_entities = [f \in Threads |-> <<>>]
    /\ related_chunks = [f \in Threads |-> <<>>]
    /\ graph_results = [f \in Threads |-> <<>>]
    /\ fusion_vector = [f \in Threads |-> <<>>]
    /\ fused_results = [f \in Threads |-> <<>>]
    /\ final_results = [f \in Threads |-> <<>>]
    /\ returned = <<>>
    /\ keyword_searcher = NoIndex
    /\ sessions = <<>>
    /\ executor = NoExecutor

\* thread t calls engine.search(query, top_k): a frame with no local set
\* yet; seen is the engine and the stores as they are at the call
ThreadCallsSearch(t) ==
    /\ engine.status = "ok"
    /\ call[t].pc \in {"idle", "returned"}
    /\ \E text \in QueryTexts, top_k \in ThreadTopK :
          call' = [call EXCEPT ![t] =
                      [IdleThread EXCEPT !.pc = "_vector_search", !.text = text,
                                         !.top_k = top_k,
                                         !.seen = <<engine, nodes, rels, points>>]]
    /\ vector_results' = [vector_results EXCEPT ![Frame(t)] = <<>>]
    /\ matched_entities' = [matched_entities EXCEPT ![Frame(t)] = <<>>]
    /\ related_chunks' = [related_chunks EXCEPT ![Frame(t)] = <<>>]
    /\ graph_results' = [graph_results EXCEPT ![Frame(t)] = <<>>]
    /\ fusion_vector' = [fusion_vector EXCEPT ![Frame(t)] = <<>>]
    /\ fused_results' = [fused_results EXCEPT ![Frame(t)] = <<>>]
    /\ final_results' = [final_results EXCEPT ![Frame(t)] = <<>>]
    /\ UNCHANGED <<storeVars, engine, otherVars, returned>>

\* search, step 1: vector_results = self._vector_search(query, ...)
ThreadVectorSearch(t) ==
    /\ call[t].pc = "_vector_search"
    /\ \E hits \in VectorStoreSearch(engine.top_k, engine.score_threshold) :
          /\ vector_results' =
                 [vector_results EXCEPT ![Frame(t)] = _vector_search({}, hits).results]
          /\ call' = [call EXCEPT ![t].pc = "_graph_search", ![t].hits = hits]
    /\ UNCHANGED <<storeVars, engine, otherVars, matched_entities, related_chunks,
                   graph_results, fusion_vector, fused_results, final_results,
                   returned>>

\* search, step 2: graph_results = self._graph_search(query)
ThreadGraphSearch(t) ==
    /\ call[t].pc = "_graph_search"
    /\ \E reads \in {GraphReads(call[t].text)} :
       \E once_per_id \in RetrieveChoices(reads.related) :
          /\ matched_entities' = [matched_entities EXCEPT ![Frame(t)] = reads.matched]
          /\ related_chunks' = [related_chunks EXCEPT ![Frame(t)] = reads.related]
          /\ graph_results' =
                 [graph_results EXCEPT ![Frame(t)] =
                     _graph_search({}, call[t].text, reads.related, once_per_id).results]
          /\ call' = [call EXCEPT ![t].pc = "fuse", ![t].once_per_id = once_per_id]
    /\ UNCHANGED <<storeVars, engine, otherVars, vector_results, fusion_vector,
                   fused_results, final_results, returned>>

\* search, steps 3 to 6, on the locals of the frame: filter, keyword search,
\* fusion, slice; result is the list handed to the caller
ThreadSearchReturns(t) ==
    /\ call[t].pc = "fuse"
    /\ \E vector_res \in {FusionVector(engine, vector_results[Frame(t)],
                                      graph_results[Frame(t)])} :
       \E fused \in {_fuse_results(engine, vector_res, graph_results[Frame(t)],
                                   _keyword_search)} :
          /\ fusion_vector' = [fusion_vector EXCEPT ![Frame(t)] = vector_res]
          /\ fused_results' = [fused_results EXCEPT ![Frame(t)] = fused]
          /\ final_results' = [final_results EXCEPT ![Frame(t)] =
                                  FinalResults(engine, fused, call[t].top_k)]
          /\ call' = [call EXCEPT ![t].pc = "returned",
                                  ![t].result = FinalResults(engine, fused, call[t].top_k)]
    /\ UNCHANGED <<storeVars, engine, otherVars, vector_results, matched_entities,
                   related_chunks, graph_results, returned>>

NextThreads ==
    \E t \in Threads :
        \/ ThreadCallsSearch(t)
        \/ ThreadVectorSearch(t)
        \/ ThreadGraphSearch(t)
        \/ ThreadSearchReturns(t)

SpecThreads == InitThreads /\ [][NextThreads]_vars

(***************************************************************************)
(* KeywordSearcher: index_chunks and search.  BM25Okapi belongs to the     *)
(* rank_bm25 package: the index is kept as the tokenized corpus, and       *)
(* get_scores is any array of scores that gives 0 to a chunk sharing no    *)
(* token with the query.                                                   *)
(***************************************************************************)
\* the Chunk objects handed to index_chunks: (id, content, modality)
KeywordChunks ==
    { [id |-> 1, content |-> <<"A","n","n">>, modality |-> "text"],
      [id |-> 2, content |-> <<"a","n","n"," ","B","o","b">>, modality |-> "image"],
      [id |-> 3, content |-> <<"z","e","d">>, modality |-> "text"] }

\* modality_filter: None or a ModalityType
ModalityFilters == {"None", "text", "image"}

\* BM25 scores in tenths: 0, 0.5 and 1.5
Bm25Tenths == {0, 5, 15}

\* the values passed as top_k of KeywordSearcher.search
KeywordTopK == {0, 1, DefaultTopK}

\* chunk.content.lower().split() / query.text.lower().split()
Tokenize(text) == Split(ToLower(text))

\* BM25Okapi(tokenized_corpus); an empty corpus is refused or accepted by
\* the package
BM25Okapi(tokenized_corpus) ==
    IF tokenized_corpus = <<>>
    THEN {NoBM25, [none |-> FALSE, corpus |-> <<>>]}
    ELSE {[none |-> FALSE, corpus |-> tokenized_corpus]}

\* self.bm25.get_scores(tokenized_query)
get_scores(bm25, tokenized_query) ==
    { sc \in [1..Len(bm25.corpus) -> Bm25Tenths] :
        \A i \in 1..Len(bm25.corpus) :
            Range(bm25.corpus[i]) \cap Range(tokenized_query) = {} => sc[i] = 0 }

\* SearchResult.score: float = Field(ge=0.0, le=1.0)
ValidScore(score) == FracLeq(Frac(0, 1), score) /\ FracLeq(score, Frac(1, 1))

\* KeywordSearcher.search from "Create results with scores" on: the loop
\* that builds the SearchResults, the sort, the slice
KeywordResults(chunks, scores, top_k, modality_filter) ==
    LET kept == {idx \in 1..Len(chunks) :
                    /\ ~(modality_filter # "None" /\ chunks[idx].modality # modality_filter)
                    /\ scores[idx] > 0}
        results == KeepAt([idx \in 1..Len(chunks) |->
                              SearchResult(chunks[idx].id, Tenths(scores[idx]),
                                           <<"keyword">>)], kept)
    IN IF \E idx \in kept : ~ValidScore(Tenths(scores[idx]))
       THEN [status |-> "ValidationError", results |-> <<>>]
       ELSE [status |-> "ok", results |-> Take(SortByScoreDesc(results), top_k)]

InitKeyword ==
    /\ nodes = {}
    /\ rels = {}
    /\ points = {}
    /\ engine = HybridSearchEngine(3, 2, 5, TRUE)
    /\ call = [op |-> "none"]
    /\ vector_results = <<>>
    /\ matched_entities = <<>>
    /\ related_chunks = <<>>
    /\ graph_results = <<>>
    /\ fusion_vector = <<>>
    /\ fused_results = <<>>
    /\ final_results = <<>>
    /\ returned = <<>>
    /\ keyword_searcher = NoIndex
    /\ sessions = <<>>
    /\ executor = NoExecutor

\* KeywordSearcher.index_chunks(chunks)
IndexChunks ==
    \E chunks \in Batches(KeywordChunks, MaxChunks) :
    \E bm25 \in BM25Okapi([i \in 1..Len(chunks) |-> Tokenize(chunks[i].content)]) :
        /\ keyword_searcher' = [bm25 |-> bm25, chunks |-> chunks]
        /\ call' = [op |-> "index_chunks"]
        /\ UNCHANGED <<storeVars, engine, resultVars, sessions, executor>>

\* KeywordSearcher.search(query, top_k, modality_filter)
KeywordSearch ==
    \E text \in QueryTexts, top_k \in KeywordTopK, modality_filter \in ModalityFilters :
        IF keyword_searcher.bm25.none \/ keyword_searcher.chunks = <<>>
        THEN /\ returned' = [status |-> "ok", results |-> <<>>]
             /\ call' = [op |-> "search", text |-> text, top_k |-> top_k,
                         modality_filter |-> modality_filter, scores |-> <<>>]
             /\ UNCHANGED <<storeVars, engine, vector_results, matched_entities,
                            related_chunks, graph_results, fusion_vector,
                            fused_results, final_results, otherVars>>
        ELSE \E scores \in get_scores(keyword_searcher.bm25, Tokenize(text)) :
             /\ returned' = KeywordResults(keyword_searcher.chunks, scores, top_k,
                                           modality_filter)
             /\ call' = [op |-> "search", text |-> text, top_k |-> top_k,
                         modality_filter |-> modality_filter, scores |-> scores]
             /\ UNCHANGED <<storeVars, engine, vector_results, matched_entities,
                            related_chunks, graph_results, fusion_vector,
                            fused_results, final_results, otherVars>>

NextKeyword == IndexChunks \/ KeywordSearch

SpecKeyword == InitKeyword /\ [][NextKeyword]_vars

(***************************************************************************)
(* The engine beside a KeywordSearcher whose index holds chunks.           *)
(***************************************************************************)
InitLexical == Init

NextLexical == IndexChunks \/ Search

SpecLexical == InitLexical /\ [][NextLexical]_vars

(***************************************************************************)
(* Neo4jClient: the session of each operation.  Two threads call the       *)
(* operations of one client; driver.session() hands out a new session, a   *)
(* call of session.run may raise, and the with statement closes the        *)
(* session when its block is left.                                         *)
(***************************************************************************)

\* calls the threads make in all
MaxCalls == 3

\* calls of session.run an operation makes at most
MaxRuns == 2

SessionOperations ==
    {"add_entity", "add_entities_batch", "add_relationship",
     "add_relationships_batch", "find_entities_by_name", "find_related_chunks"}

\* the operations that return before a session is opened when their list
\* is empty
ReturnsOnEmpty ==
    {"add_entities_batch", "add_relationships_batch", "find_entities_by_name",
     "find_related_chunks"}

\* the operations that flatten properties before they open the session
FlattensBeforeSession == {"add_entity", "add_entities_batch", "add_relationship"}

\* the operations that flatten properties inside the session
FlattensInSession == {"add_relationships_batch"}

\* the calls of session.run the operation can make
RunsOf(op) ==
    IF op \in {"add_entity", "add_relationship", "find_entities_by_name",
               "find_related_chunks"}
    THEN {1}
    ELSE 1..MaxRuns

\* a with block left after a return only: an exception leaves the session open
WithExitCloses_OnReturnOnly(raised) == ~raised

\* "with self.driver.session() as session:": the session is closed when the
\* block is left, by a return or by an exception
WithExitCloses(raised) == TRUE

NoOperation ==
    [op |-> "None", calls |-> 0, pc |-> "idle", empty |-> FALSE,
     flatten_raises |-> FALSE, runs |-> 0, session |-> 0, raised |-> FALSE]

InitSessions ==
    /\ nodes = {}
    /\ rels = {}
    /\ points = {}
    /\ engine = HybridSearchEngine(3, 2, 5, TRUE)
    /\ call = [t \in Threads |-> NoOperation]
    /\ vector_results = <<>>
    /\ matched_entities = <<>>
    /\ related_chunks = <<>>
    /\ graph_results = <<>>
    /\ fusion_vector = <<>>
    /\ fused_results = <<>>
    /\ final_results = <<>>
    /\ returned = <<>>
    /\ keyword_searcher = NoIndex
    /\ sessions = <<>>
    /\ executor = NoExecutor

sessionFrame ==
    <<storeVars, engine, resultVars, keyword_searcher, executor>>

\* the frame of an operation is gone once it has returned or raised
Gone(frame, pc, raised) ==
    [frame EXCEPT !.pc = pc, !.raised = raised, !.empty = FALSE,
                  !.flatten_raises = FALSE, !.runs = 0]

\* a thread calls an operation of the client
CallOperation(t) ==
    /\ call[t].pc \in {"idle", "returned", "raised"}
    /\ call[1].calls + call[2].calls < MaxCalls
    /\ \E op \in SessionOperations, empty \in BOOLEAN, flatten_raises \in BOOLEAN :
        /\ empty => op \in ReturnsOnEmpty /\ ~flatten_raises
        /\ flatten_raises => op \in FlattensBeforeSession \cup FlattensInSession
        /\ \E runs \in RunsOf(op) :
            call' = [call EXCEPT ![t] =
                        [op |-> op, calls |-> call[t].calls + 1, pc |-> "called",
                         empty |-> empty, flatten_raises |-> flatten_raises,
                         runs |-> runs, session |-> 0, raised |-> FALSE]]
    /\ UNCHANGED <<sessionFrame, sessions>>

\* "if not entities: return" and the like
ReturnOnEmpty(t) ==
    /\ call[t].pc = "called"
    /\ call[t].empty
    /\ call' = [call EXCEPT ![t] = Gone(call[t], "returned", FALSE)]
    /\ UNCHANGED <<sessionFrame, sessions>>

\* _flatten_properties raises before the with statement
RaiseBeforeSession(t) ==
    /\ call[t].pc = "called"
    /\ call[t].flatten_raises
    /\ call[t].op \in FlattensBeforeSession
    /\ call' = [call EXCEPT ![t] = Gone(call[t], "raised", TRUE)]
    /\ UNCHANGED <<sessionFrame, sessions>>

\* "with self.driver.session() as session:" is entered
OpenSession(t) ==
    /\ call[t].pc = "called"
    /\ ~call[t].empty
    /\ ~(call[t].flatten_raises /\ call[t].op \in FlattensBeforeSession)
    /\ sessions' = Append(sessions, [operation |-> <<t, call[t].calls>>,
                                     closed |-> FALSE, users |-> {}])
    /\ call' = [call EXCEPT ![t].pc = "in_session", ![t].session = Len(sessions) + 1]
    /\ UNCHANGED sessionFrame

\* _flatten_properties raises inside the with block
RaiseInSession(t) ==
    /\ call[t].pc = "in_session"
    /\ call[t].flatten_raises
    /\ call[t].op \in FlattensInSession
    /\ call' = [call EXCEPT ![t].pc = "leaving", ![t].raised = TRUE]
    /\ UNCHANGED <<sessionFrame, sessions>>

\* session.run(...): it returns or raises
SessionRun(t) ==
    /\ call[t].pc = "in_session"
    /\ ~call[t].flatten_raises
    /\ call[t].runs > 0
    /\ sessions' = [sessions EXCEPT ![call[t].session].users =
                        @ \cup {<<t, call[t].calls>>}]
    /\ \E raises \in BOOLEAN :
        call' = [call EXCEPT ![t].runs = IF raises THEN @ ELSE @ - 1,
                             ![t].pc = IF raises THEN "leaving"
                                       ELSE IF call[t].runs = 1 THEN "leaving"
                                       ELSE "in_session",
                             ![t].raised = raises]
    /\ UNCHANGED sessionFrame

\* the with block is left: the operation returns, or the exception goes on
\* to the caller
LeaveSession(t) ==
    /\ call[t].pc = "leaving"
    /\ sessions' = [sessions EXCEPT ![call[t].session].closed =
                        @ \/ WithExitCloses(call[t].raised)]
    /\ call' = [call EXCEPT ![t] =
                    Gone(call[t], IF call[t].raised THEN "raised" ELSE "returned",
                         call[t].raised)]
    /\ UNCHANGED sessionFrame

NextSessions ==
    \E t \in Threads :
        \/ CallOperation(t)
        \/ ReturnOnEmpty(t)
        \/ RaiseBeforeSession(t)
        \/ OpenSession(t)
        \/ RaiseInSession(t)
        \/ SessionRun(t)
        \/ LeaveSession(t)

SpecSessions == InitSessions /\ [][NextSessions]_vars

(***************************************************************************)
(* IngestionPipeline: _ingest_sequential, _ingest_parallel and             *)
(* ingest_directory.  A file is a number, the order of the numbers being   *)
(* the order of the paths; the workers of the pool finish in any order.    *)
(***************************************************************************)

\* files in a list
MaxFiles == 3

\* the paths
Files == 1..MaxFiles

\* the files whose ingester raises
Unreadable == {2}

\* None
NoDocument == [none |-> TRUE, source |-> 0]

\* the Document an ingester builds from a file
Document(file_path) == [none |-> FALSE, source |-> file_path]

\* IngestionPipeline.ingest_file: the document, or None when the ingester
\* raised
ingest_file(file_path) ==
    IF file_path \in Unreadable THEN NoDocument ELSE Document(file_path)

\* IngestionPipeline._ingest_sequential
_ingest_sequential(files) == [i \in 1..Len(files) |-> ingest_file(files[i])]

\* [d for d in documents if d is not None]
Successful(documents) ==
    KeepAt(documents, {i \in 1..Len(documents) : ~documents[i].none})

\* documents.append(result): the result goes to the place of its arrival
StoreResult_Append(documents, idx, arrival, result) ==
    [documents EXCEPT ![arrival] = result]

\* documents[idx] = future.result()
StoreResult(documents, idx, arrival, result) ==
    [documents EXCEPT ![idx] = result]

\* sorted(files) of the paths glob yields: each path once, in order
SortedFileLists ==
    {files \in SeqsUpTo(Files, MaxFiles) :
        \A i \in 1..Len(files) : \A j \in 1..Len(files) :
            i < j => files[i] < files[j]}

NoIngestion == [op |-> "none", pc |-> "idle", parallel |-> FALSE]

InitIngest ==
    /\ nodes = {}
    /\ rels = {}
    /\ points = {}
    /\ engine = HybridSearchEngine(3, 2, 5, TRUE)
    /\ call = NoIngestion
    /\ vector_results = <<>>
    /\ matched_entities = <<>>
    /\ related_chunks = <<>>
    /\ graph_results = <<>>
    /\ fusion_vector = <<>>
    /\ fused_results = <<>>
    /\ final_results = <<>>
    /\ returned = <<>>
    /\ keyword_searcher = NoIndex
    /\ sessions = <<>>
    /\ executor = NoExecutor

ingestFrame ==
    <<storeVars, engine, vector_results, matched_entities, related_chunks,
      graph_results, fusion_vector, fused_results, final_results,
      keyword_searcher, sessions>>

\* documents = [None] * len(files), and every file is submitted to the pool
Submit(files) ==
    [files |-> files,
     futures |-> [i \in 1..Len(files) |-> "running"],
     completed |-> <<>>,
     collected |-> <<>>,
     documents |-> [i \in 1..Len(files) |-> NoDocument]]

\* _ingest_parallel(files) is called
CallIngestParallel ==
    /\ call.pc \in {"idle", "returned"}
    /\ \E files \in SeqsUpTo(Files, MaxFiles) :
        /\ executor' = Submit(files)
        /\ call' = [op |-> "_ingest_parallel", pc |-> "as_completed", parallel |-> TRUE]
    /\ returned' = <<>>
    /\ UNCHANGED ingestFrame

\* ingest_directory(directory, parallel=...) is called: without files it
\* returns [], with one file or parallel=False it ingests them in order
CallIngestDirectory ==
    /\ call.pc \in {"idle", "returned"}
    /\ \E files \in SortedFileLists, parallel \in BOOLEAN :
        IF files # <<>> /\ parallel /\ Len(files) > 1
        THEN /\ executor' = Submit(files)
             /\ call' = [op |-> "ingest_directory", pc |-> "as_completed",
                         parallel |-> TRUE]
             /\ returned' = <<>>
        ELSE /\ executor' = [NoExecutor EXCEPT !.files = files]
             /\ call' = [op |-> "ingest_directory", pc |-> "returned",
                         parallel |-> FALSE]
             /\ returned' = IF files = <<>> THEN <<>>
                            ELSE Successful(_ingest_sequential(files))
    /\ UNCHANGED ingestFrame

\* a worker of the pool finishes ingest_file for one of the files
WorkerFinishes ==
    /\ call.pc = "as_completed"
    /\ \E idx \in 1..Len(executor.files) :
        /\ executor.futures[idx] = "running"
        /\ executor' = [executor EXCEPT !.futures[idx] = "done",
                                        !.completed = Append(@, idx)]
    /\ UNCHANGED <<ingestFrame, call, returned>>

\* for future in as_completed(future_to_idx): the futures come in the order
\* they finished in
CollectResult ==
    /\ call.pc = "as_completed"
    /\ executor.completed # <<>>
    /\ LET idx == Head(executor.completed)
       IN executor' = [executor EXCEPT
                          !.completed = Tail(@),
                          !.collected = Append(@, idx),
                          !.documents = StoreResult(@, idx,
                                                    Len(executor.collected) + 1,
                                                    ingest_file(executor.files[idx]))]
    /\ UNCHANGED <<ingestFrame, call, returned>>

\* every future has been collected: _ingest_parallel returns documents, and
\* ingest_directory the documents that are not None
IngestReturns ==
    /\ call.pc = "as_completed"
    /\ Len(executor.collected) = Len(executor.files)
    /\ call' = [call EXCEPT !.pc = "returned"]
    /\ returned' = IF call.op = "ingest_directory"
                   THEN Successful(executor.documents)
                   ELSE executor.documents
    /\ UNCHANGED <<ingestFrame, executor>>

NextIngest ==
    \/ CallIngestParallel
    \/ CallIngestDirectory
    \/ WorkerFinishes
    \/ CollectResult
    \/ IngestReturns

SpecIngest == InitIngest /\ [][NextIngest]_vars

(***************************************************************************)
(* Properties.                                                             *)
(***************************************************************************)
Ids(results) == {results[i].id : i \in 1..Len(results)}
Searched == call.op = "search"
Min(a, b) == IF a <= b THEN a ELSE b

\* the node ids at most k relationships away from the node ids in S,
\* relationships taken in either direction
RECURSIVE WithinHops(_, _)
WithinHops(S, k) ==
    IF k = 0 THEN S
    ELSE LET near == WithinHops(S, k - 1)
         IN near \cup {OtherEnd(r, n) : r \in {x \in rels : x.source \in near \/ x.target \in near},
                                        n \in near}

\* C1: with graph filtering enabled, when the candidate names of the query
\* match at least one entity, every returned result is the source chunk of an
\* entity at most maxDepth (2) relationships away from a matched entity.
C1_OnlyReachableChunks ==
    (Searched /\ engine.use_graph_filter /\ matched_entities # <<>>)
    => \A r \in Range(final_results) :
          \E e \in nodes :
              /\ e.source_id = Str(r.id)
              /\ e.id \in WithinHops({matched_entities[i].id : i \in 1..Len(matched_entities)},
                                     QueryMaxDepth)

\* C2: every element of _apply_graph_filter(vectorResults, graphResults) is
\* an element of vectorResults whose chunk id is the id of some element of
\* graphResults, every such element is kept, and the kept elements stay in
\* their vectorResults order: the output is vectorResults read at exactly the
\* positions whose id occurs in graphResults, in increasing order.
C2_FilterKeepsExactlyGraphIds ==
    (call.op = "unit" /\ "filter" \in call.done)
    => \E pos \in [1..Len(fusion_vector) -> 1..Len(vector_results)] :
          /\ \A k \in 1..Len(fusion_vector) : fusion_vector[k] = vector_results[pos[k]]
          /\ \A k \in 1..(Len(fusion_vector) - 1) : pos[k] < pos[k + 1]
          /\ {pos[k] : k \in 1..Len(fusion_vector)}
                = {i \in 1..Len(vector_results) : vector_results[i].id \in Ids(graph_results)}

\* C2 witness: the filter has run, kept two results and removed one
C2_Witness ==
    /\ call.op = "unit"
    /\ "filter" \in call.done
    /\ Len(vector_results) = 3
    /\ Len(fusion_vector) = 2
    /\ fusion_vector[1] # fusion_vector[2]

UnknownPersonQuery ==
    /\ Searched
    /\ PotentialEntities(call.text) # <<>>
    /\ matched_entities = <<>>

Fused == call.op = "unit" /\ "fuse" \in call.done

\* the scores a strategy's list gives chunk id: those of its entries for id,
\* or a single 0 (no contribution) when the list does not hold id
StrategyScores(results, id) ==
    IF id \in Ids(results)
    THEN {results[i].score : i \in {j \in 1..Len(results) : results[j].id = id}}
    ELSE {Tenths(0)}

\* C5: the fused score of each chunk id is the sum, over the strategies whose
\* list holds the id, of that strategy's score for the chunk times its
\* normalized weight, each strategy counted once and none dropped, also when
\* a list holds the id more than once; every input id is fused exactly once.
C5_FusedScoreIsWeightedSum ==
    Fused =>
       /\ Ids(fused_results) = Ids(vector_results) \cup Ids(graph_results) \cup Ids(call.keyword)
       /\ Cardinality(Ids(fused_results)) = Len(fused_results)
       /\ \A f \in Range(fused_results) :
             \E sv \in StrategyScores(vector_results, f.id),
                sg \in StrategyScores(graph_results, f.id),
                sk \in StrategyScores(call.keyword, f.id) :
                 FracEq(f.score,
                        FracAdd(FracAdd(FracMul(sv, engine.vector_weight),
                                        FracMul(sg, engine.graph_weight)),
                                FracMul(sk, engine.keyword_weight)))

\* the names of the strategies whose list holds chunk id, in fusion order
ContributingStrategies(id) ==
    KeepAt(<<"vector", "graph", "keyword">>,
           {i \in 1..3 : id \in Ids(<<vector_results, graph_results, call.keyword>>[i])})

\* C6: in the output of _fuse_results the source of every chunk names exactly
\* the strategies that contributed to it, joined in fusion order.
C6_SourceNamesContributors ==
    Fused => \A f \in Range(fused_results) : f.source = ContributingStrategies(f.id)

\* C7: for every top_k the caller passes, search returns the first
\* min(top_k, n) entries of the fused ranking of n chunks: at most top_k
\* elements, no chunk id twice, scores in non-increasing order.
C7_TopKPrefixOfRanking ==
    (Searched /\ call.top_k # <<>>)
    => /\ final_results = SubSeq(fused_results, 1, Min(call.top_k[1], Len(fused_results)))
       /\ Len(final_results) <= call.top_k[1]
       /\ Cardinality(Ids(final_results)) = Len(final_results)
       /\ \A i \in 1..(Len(final_results) - 1) :
             FracLeq(final_results[i + 1].score, final_results[i].score)

\* C8: for every configured triple of weights, constructing the engine
\* succeeds and its effective weights are the configured weights divided by
\* their sum, so they add up to 1.
C8_WeightsNormalized ==
    (call.op = "unit" /\ engine.status # "none")
    => /\ engine.status = "ok"
       /\ LET sum == call.weights[1] + call.weights[2] + call.weights[3]
          IN /\ FracEq(engine.graph_weight, Frac(call.weights[1], sum))
             /\ FracEq(engine.keyword_weight, Frac(call.weights[2], sum))
             /\ FracEq(engine.vector_weight, Frac(call.weights[3], sum))
             /\ FracEq(FracAdd(FracAdd(engine.graph_weight, engine.keyword_weight),
                               engine.vector_weight),
                       Frac(1, 1))

\* the greatest relevance of the traversal rows of chunk id
MaxRelevance(chunk_id) ==
    LET seen == {related_chunks[i].relevance :
                    i \in {j \in 1..Len(related_chunks) :
                              related_chunks[j].chunk_id = chunk_id}}
    IN CHOOSE m \in seen : \A o \in seen : o <= m

\* C9: when graph traversal reaches the same chunk through several paths or
\* entities at different distances, the graph score of the chunk is the
\* maximum of the relevances observed for it.
C9_GraphScoreIsMaxRelevance ==
    Searched => \A r \in Range(graph_results) :
                    r.score = Tenths(MaxRelevance(Str(r.id)))

\* C10: a matched entity is itself reached at distance 0: when it carries a
\* source chunk id, the traversal emits that chunk with relevance 1.0, also
\* when the entity has no relationships.
C10_MatchedEntityAtDistanceZero ==
    Searched => \A m \in Range(matched_entities) :
                    NodeOf(m.id).source_id # Null
                    => \E i \in 1..Len(related_chunks) :
                          /\ related_chunks[i].chunk_id = NodeOf(m.id).source_id
                          /\ related_chunks[i].relevance = Relevance(0)

\* the distances for which the relevance table is read: up to max_depth and
\* three more
Distances == 0..(QueryMaxDepth + 3)

\* C11: the relevance of a reached entity depends only on its distance d: it
\* is 1.0, 0.8, 0.5 for d = 0, 1, 2 and 0.3 for every d > 2, so it never
\* increases with d; every row of the traversal carries the relevance of the
\* length of a path from a matched entity to an entity of its chunk, and
\* every graph result of search carries one of these values as its score and
\* 'graph' as its source.
C11_RelevanceByDistance ==
    /\ \A d \in Distances :
          Relevance(d) = (CASE d = 0 -> 10 [] d = 1 -> 8 [] d = 2 -> 5 [] OTHER -> 3)
    /\ \A d1, d2 \in Distances : d1 < d2 => Relevance(d1) >= Relevance(d2)
    /\ Searched =>
          /\ \A row \in Range(related_chunks) :
                \E m \in Range(matched_entities), k \in 1..QueryMaxDepth :
                   \E p \in PathsOfLength(m.id, k) :
                      /\ NodeOf(p.end).source_id = row.chunk_id
                      /\ NodeOf(p.end).name = row.entity_name
                      /\ row.relevance = Relevance(k)
          /\ \A r \in Range(graph_results) :
                /\ r.source = <<"graph">>
                /\ r.score \in {Tenths(Relevance(d)) : d \in Distances}

\* C11 witness: a search whose graph results carry the relevance of distance
\* 1 for one chunk and that of distance 2 for another
C11_Witness ==
    /\ Searched
    /\ \E a, b \in Range(graph_results) :
          /\ a.id # b.id
          /\ a.score = Tenths(Relevance(1))
          /\ b.score = Tenths(Relevance(2))

Extracted == call.op = "_extract_entity_names" /\ call.done

\* a token that belongs to a run: it starts with an uppercase letter and is
\* not in the stop list
InRun(token) == token[1] \in UpperSet /\ token \notin skip_words

\* the maximal runs of such tokens, as pairs <<first, last>> of positions
MaximalRuns(tokens) ==
    { run \in (1..Len(tokens)) \X (1..Len(tokens)) :
        /\ run[1] <= run[2]
        /\ \A k \in run[1]..run[2] : InRun(tokens[k])
        /\ run[1] = 1 \/ ~InRun(tokens[run[1] - 1])
        /\ run[2] = Len(tokens) \/ ~InRun(tokens[run[2] + 1]) }

\* what a run emits, each string with its rank in the run: 0 for the joined
\* run, k for the k-th token
Emissions(tokens, run) ==
    LET long == {k \in run[1]..run[2] : Len(tokens[k]) > 2}
    IN {[string |-> tokens[k], at |-> <<run[1], k - run[1] + 1>>] : k \in long}
       \cup (IF run[1] < run[2]
             THEN {[string |-> JoinWords(SubSeq(tokens, run[1], run[2])),
                    at |-> <<run[1], 0>>]}
             ELSE {})

AllEmissions(tokens) == UNION {Emissions(tokens, run) : run \in MaximalRuns(tokens)}

FirstEmission(tokens, string) ==
    LET places == {e.at : e \in {x \in AllEmissions(tokens) : x.string = string}}
    IN CHOOSE at \in places :
          \A o \in places : at[1] < o[1] \/ (at[1] = o[1] /\ at[2] <= o[2])

\* C13: the list returned by _extract_entity_names holds no string twice and
\* keeps the candidates in the order of their first emission; it is empty for
\* the empty text, for a text of blanks and for a text without a token that
\* starts with an uppercase letter.
C13_NoDuplicatesInEmissionOrder ==
    Extracted =>
       LET tokens == Split(call.text)
       IN /\ \A p, q \in 1..Len(returned) : p < q =>
                /\ returned[p] # returned[q]
                /\ LET a == FirstEmission(tokens, returned[p])
                       b == FirstEmission(tokens, returned[q])
                   IN a[1] < b[1] \/ (a[1] = b[1] /\ a[2] < b[2])
          /\ (\A i \in 1..Len(call.text) : call.text[i] = " ") => returned = <<>>
          /\ (\A k \in 1..Len(tokens) : tokens[k][1] \notin UpperSet) => returned = <<>>

\* C13 witness: a string emitted twice is returned once, among three
C13_Witness ==
    /\ Extracted
    /\ Len(returned) = 3
    /\ \E e1, e2 \in AllEmissions(Split(call.text)) :
          e1.string = e2.string /\ e1.at # e2.at

NoEngineCandidate(text) ==
    \A c \in {RemovePossessive(text)} \cup Range(Split(RemovePossessive(text))) :
        Len(c) <= 2 \/ ToLower(c) \in stop_words

Flattened == call.op = "_flatten_properties" /\ call.done

\* C15: every value of the map returned by _flatten_properties is a scalar
\* (string, int, float, bool) or an array whose elements are scalars of one
\* and the same type: no value is null, a nested object or an array mixing
\* element types.
C15_FlattenedValuesAreStorable ==
    (Flattened /\ returned.status = "ok")
    => \A k \in DOMAIN returned.flattened :
          LET value == returned.flattened[k]
          IN \/ IsPrimitive(value)
             \/ /\ value.kind = "list"
                /\ \A i \in 1..Len(value.items) : IsPrimitive(value.items[i])
                /\ \A i, j \in 1..Len(value.items) :
                      value.items[i].kind = value.items[j].kind

\* C16: for every property map _flatten_properties returns without raising,
\* and its output has exactly the input keys whose value is not null.
C16_FlattenNeverRaisesKeepsKeys ==
    Flattened =>
       /\ returned.status = "ok"
       /\ DOMAIN returned.flattened
             = {k \in DOMAIN call.properties : call.properties[k].kind # "None"}

\* the last call was a write of entities that returned normally
EntitiesWritten ==
    /\ call.op \in {"add_entity", "add_entities_batch"}
    /\ ~call.raised

\* the nodes after the last write of entities is made once more
EntitiesWrittenAgain ==
    IF call.op = "add_entity"
    THEN MergeEntity(nodes,
             EntityParams(call.entities[1].id, call.entities[1].name,
                          call.entities[1].entity_type, call.entities[1].source_id,
                          _flatten_properties(call.entities[1].properties).flattened))
    ELSE EntitiesBatch(nodes, call.entities)

\* C17: after any sequence of add_entity and add_entities_batch calls the
\* graph holds exactly one node per distinct entity id written (no two nodes
\* share an id, and the ids of the nodes are the ids written), and making
\* the last call once more with the same entities leaves the nodes as they
\* are.
C17_EntityUpsertIdempotentById ==
    /\ \A a \in nodes : \A b \in nodes : a.id = b.id => a = b
    /\ {e.id : e \in nodes} = {Str(id) : id \in call.written}
    /\ EntitiesWritten => EntitiesWrittenAgain = nodes

\* a batch of two different entities with the same id was written into a
\* graph that holds another node as well
C17_Witness ==
    /\ EntitiesWritten
    /\ call.op = "add_entities_batch"
    /\ Len(call.entities) = 2
    /\ call.entities[1].id = call.entities[2].id
    /\ call.entities[1] # call.entities[2]
    /\ Cardinality(nodes) = 2

\* C18: after any sequence of add_relationship and add_relationships_batch
\* calls the graph holds one edge for every relationship id written (a
\* relationship is written when its call found both its ends), so writing a
\* relationship twice leaves one edge for it, and two relationships with
\* different ids each have their own edge, also when they share source,
\* target and type.
C18_OneEdgePerRelationshipId ==
    Cardinality(rels) = Cardinality(call.rel_written)

\* find_entities_by_name has returned
Found == call.op = "find_entities_by_name" /\ call.done

\* the name of an entity, compared case-insensitively, contains (fuzzy) or
\* equals (not fuzzy) the candidate
CandidateFits(entity_name, candidate, fuzzy) ==
    IF fuzzy
    THEN \E i \in 0..(Len(entity_name) - Len(candidate)) :
             ToLower(SubSeq(entity_name, i + 1, i + Len(candidate))) = ToLower(candidate)
    ELSE ToLower(entity_name) = ToLower(candidate)

SearchedUnderFaults == call.op = "search" /\ call.faults # {}

\* the vector strategy met a raising call: the embedding generator or the
\* vector store
VectorFailed == call.faults \cap {"embedding_generator", "vector_store"} # {}

\* the graph strategy met a raising call: the graph store at the lookup of
\* the entities, or the vector store at the retrieval of the chunks found
GraphFailed ==
    \/ "graph_client" \in call.faults /\ call.lookups > 0
    \/ "vector_store" \in call.faults /\ related_chunks # <<>>

\* C20: if the embedding generator, the vector store or the graph store
\* raises during search, search does not raise; the failing strategy
\* contributes an empty list; the results of a strategy that did not fail
\* are what it gives without the fault, and they are fused and returned
\* (with the vector strategy failed the fused ranking holds the graph
\* results, with the graph strategy failed it holds every vector result,
\* and the answer is its first top_k entries); if every strategy yields
\* nothing, search returns an empty list.
C20_FailedStrategyContributesEmpty ==
    SearchedUnderFaults =>
        /\ ~call.raised
        /\ VectorFailed => vector_results = <<>>
        /\ GraphFailed => graph_results = <<>>
        /\ ~VectorFailed =>
              vector_results \in VectorStoreSearch(engine.top_k, engine.score_threshold)
        /\ ~GraphFailed =>
              /\ related_chunks = RelatedChunks(MatchedEntities(call.text))
              /\ \E once_per_id \in BOOLEAN :
                     graph_results = GraphResults(related_chunks, once_per_id)
        /\ VectorFailed => Ids(fused_results) = Ids(graph_results)
        /\ GraphFailed => Ids(fused_results) = Ids(vector_results)
        /\ final_results = PySlice(fused_results, EffectiveTopK(engine, call.top_k))
        /\ (vector_results = <<>> /\ graph_results = <<>>) => final_results = <<>>

\* the graph store raised at the lookup while the vector store answered, and
\* search returned vector results
C20_Witness ==
    /\ SearchedUnderFaults
    /\ call.faults = {"graph_client"}
    /\ GraphFailed
    /\ vector_results # <<>>
    /\ final_results # <<>>

\* C21: each strategy call of search is bounded by a timeout and blocks no
\* other strategy: whatever calls never return, a search that was started
\* eventually returns.
C21_SearchEventuallyReturns ==
    (call.pc = "_vector_search") ~> (call.pc = "returned")

\* what the search of thread t returns when it runs alone on the engine and
\* the stores, given what Qdrant answered it
ReturnedAlone(t) ==
    LET graph_res == GraphResults(RelatedChunks(MatchedEntities(call[t].text)),
                                  call[t].once_per_id)
    IN FinalResults(engine,
                    _fuse_results(engine, FusionVector(engine, call[t].hits, graph_res),
                                  graph_res, _keyword_search),
                    call[t].top_k)

\* C22: search writes to neither store and leaves the configuration of the
\* engine unchanged (while a search runs and when it has returned, the
\* engine and the stores are as they were at the call), and of two searches
\* interleaved on the same engine each returns what it returns when run
\* alone.
C22_SearchReadOnlyAndReentrant ==
    \A t \in Threads :
        /\ call[t].pc # "idle" => call[t].seen = <<engine, nodes, rels, points>>
        /\ call[t].pc = "returned" => call[t].result = ReturnedAlone(t)

\* both threads have returned from searches with different queries, one of
\* them with results, the other thread having run between its steps
C22_Witness ==
    /\ call[1].pc = "returned"
    /\ call[2].pc = "fuse"
    /\ call[1].text # call[2].text
    /\ call[1].result # <<>>
    /\ call[1].hits # call[2].hits

\* KeywordSearcher.search has returned or raised
KeywordSearched == call.op = "search" /\ "modality_filter" \in DOMAIN call

\* the indexed chunks that pass the modality filter of the last search and
\* have a score above 0, as indices into the indexed list
PositiveChunks ==
    {idx \in 1..Len(call.scores) :
        /\ call.modality_filter \in {"None", keyword_searcher.chunks[idx].modality}
        /\ call.scores[idx] > 0}

\* C23: after index_chunks(chunks), search returns exactly the indexed
\* chunks that pass the modality filter and have a BM25 score greater than
\* 0, in non-increasing score order and truncated to top_k, whatever the
\* size of the positive score; before any index_chunks call it returns an
\* empty list.
C23_KeywordSearchReturnsPositiveChunks ==
    KeywordSearched =>
        /\ returned.status = "ok"
        /\ Len(returned.results) = Min(call.top_k, Cardinality(PositiveChunks))
        /\ \A i \in 1..Len(returned.results) :
               \E idx \in PositiveChunks :
                   /\ returned.results[i].id = keyword_searcher.chunks[idx].id
                   /\ returned.results[i].score = Tenths(call.scores[idx])
        /\ \A i \in 1..(Len(returned.results) - 1) :
               FracLeq(returned.results[i + 1].score, returned.results[i].score)
        /\ \A idx \in PositiveChunks :
               \/ \E i \in 1..Len(returned.results) :
                      returned.results[i].id = keyword_searcher.chunks[idx].id
               \/ /\ Len(returned.results) = call.top_k
                  /\ \A i \in 1..Len(returned.results) :
                         FracLeq(Tenths(call.scores[idx]), returned.results[i].score)
        /\ keyword_searcher.bm25.none => returned.results = <<>>

\* the ids of the indexed chunks that the lexical index may score above 0
\* for the text, with a score a SearchResult can carry
LexicalHits(text) ==
    IF keyword_searcher.bm25.none \/ keyword_searcher.chunks = <<>> THEN {}
    ELSE { keyword_searcher.chunks[idx].id :
             idx \in {i \in 1..Len(keyword_searcher.chunks) :
                         \E sc \in get_scores(keyword_searcher.bm25, Tokenize(text)) :
                             sc[i] > 0 /\ ValidScore(Tenths(sc[i]))} }

\* C24: search runs the lexical strategy and fuses its output: a chunk that
\* the lexical index scores above 0 for the query is in the fused ranking
\* (with that score times the keyword weight as its contribution), and it
\* appears in the result when vector and graph search return nothing.
C24_LexicalResultsAreFused ==
    Searched =>
        \A id \in LexicalHits(call.text) :
            /\ id \in Ids(fused_results)
            /\ (vector_results = <<>> /\ graph_results = <<>>)
               => id \in Ids(final_results)

\* the ids handed to _fuse_results in the order the fusion sees them: the
\* vector list, then the graph list, then the keyword list
FusionInput ==
    [i \in 1..Len(vector_results) |-> vector_results[i].id]
    \o [i \in 1..Len(graph_results) |-> graph_results[i].id]
    \o [i \in 1..Len(call.keyword) |-> call.keyword[i].id]

\* the place at which the fusion first sees chunk id
FirstSeen(id) ==
    CHOOSE i \in 1..Len(FusionInput) :
        /\ FusionInput[i] = id
        /\ \A j \in 1..(i - 1) : FusionInput[j] # id

\* C25: among fused results with equal score, _fuse_results keeps first-seen
\* order: results first inserted from the vector list precede those first
\* inserted from the graph list, which precede those first inserted from
\* the keyword list, and within one list the input order is kept.
C25_TiesKeepFirstSeenOrder ==
    Fused =>
        \A i \in 1..Len(fused_results) : \A j \in (i + 1)..Len(fused_results) :
            FracEq(fused_results[i].score, fused_results[j].score)
            => FirstSeen(fused_results[i].id) < FirstSeen(fused_results[j].id)

\* two chunks fused to the same positive score, one first seen in the
\* vector list and the other in the graph list
C25_Witness ==
    /\ Fused
    /\ Len(fused_results) = 2
    /\ FracEq(fused_results[1].score, fused_results[2].score)
    /\ FracLess(Tenths(0), fused_results[1].score)
    /\ fused_results[1].id \in Ids(vector_results)
    /\ fused_results[2].id \notin Ids(vector_results)
    /\ fused_results[2].id \in Ids(graph_results)

\* the last call was a write to the graph that returned normally
GraphWritten ==
    /\ call.op \in {"add_entity", "add_entities_batch", "add_relationship",
                    "add_relationships_batch"}
    /\ ~call.raised

\* the property map is empty, or becomes empty once null values are dropped
NothingToStore(properties) == \A k \in DOMAIN properties : properties[k] = PyNone

\* C26: an entity or relationship whose property map is empty, or becomes
\* empty once null values are dropped, is written by a statement that has
\* no properties clause and receives no properties parameter, in add_entity,
\* add_relationship and both batch writes; in the batch writes items with
\* and without properties go to separate statements.
C26_NoPropertiesNoClause ==
    GraphWritten =>
        /\ \A item \in Range(call.entities) \cup Range(call.relationships) :
               NothingToStore(item.properties)
               => /\ \E n \in 1..Len(call.statements) :
                         \E i \in 1..Len(call.statements[n].rows) :
                             call.statements[n].rows[i].item = item
                  /\ \A n \in 1..Len(call.statements) :
                         \A i \in 1..Len(call.statements[n].rows) :
                             call.statements[n].rows[i].item = item
                             => /\ ~call.statements[n].properties_clause
                                /\ ~call.statements[n].rows[i].properties_parameter
        /\ \A n \in 1..Len(call.statements) :
               \A i \in 1..Len(call.statements[n].rows) :
                   call.statements[n].properties_clause
                   <=> ~NothingToStore(call.statements[n].rows[i].item.properties)

\* a batch of two entities, one whose only property is None and one with a
\* property, written by two statements
C26_Witness ==
    /\ GraphWritten
    /\ call.op = "add_entities_batch"
    /\ Len(call.entities) = 2
    /\ \E i \in 1..2 : /\ DOMAIN call.entities[i].properties # {}
                       /\ NothingToStore(call.entities[i].properties)
    /\ \E i \in 1..2 : ~NothingToStore(call.entities[i].properties)
    /\ Len(call.statements) = 2

\* the operation a thread is in, or made last
OperationOf(t) == <<t, call[t].calls>>

\* C27: every session opened by an operation of the client is closed by the
\* time the operation returns or raises, and no session is used by two
\* operations.
C27_SessionsClosedAndUnshared ==
    /\ \A t \in Threads :
           call[t].pc \in {"idle", "returned", "raised"}
           => \A i \in 1..Len(sessions) :
                  sessions[i].operation[1] = t => sessions[i].closed
    /\ \A i \in 1..Len(sessions) : sessions[i].users \subseteq {sessions[i].operation}
    /\ \A i, j \in 1..Len(sessions) :
           sessions[i].operation = sessions[j].operation => i = j

\* an operation has raised out of its session after a run, while the other
\* thread is inside a session of its own
C27_Witness ==
    \E t, u \in Threads :
        /\ call[t].pc = "raised"
        /\ call[t].session # 0
        /\ sessions[call[t].session].users = {OperationOf(t)}
        /\ sessions[call[t].session].closed
        /\ call[u].pc = "in_session"
        /\ ~sessions[call[u].session].closed

\* C28: a batched write leaves the graph in the state that writing the
\* elements of the batch one at a time in list order leaves it in, for
\* entities and for relationships, also when an id (or a source, target and
\* type) occurs more than once in the batch; an empty batch changes nothing.
C28_BatchEqualsOneAtATime ==
    [][/\ call'.op = "add_entities_batch"
          => /\ nodes' = EntitiesOneAtATime(nodes, call'.entities)
             /\ rels' = rels
       /\ call'.op = "add_relationships_batch"
          => /\ rels' = RelationshipsOneAtATime(nodes, rels, call'.relationships)
             /\ nodes' = nodes]_vars

\* the graph N holds no node for the source or none for the target of r
MissingEndpoint(N, r) ==
    \/ ~\E e \in N : e.id = Str(r.source_entity_id)
    \/ ~\E e \in N : e.id = Str(r.target_entity_id)

\* C29: add_relationship and add_relationships_batch create or update an
\* edge only when both its source and its target entity are in the graph;
\* they create no node, and a call whose relationships all have a missing
\* endpoint leaves the graph unchanged and returns without an error.
C29_EdgesOnlyBetweenExistingEntities ==
    [][call'.op \in {"add_relationship", "add_relationships_batch"}
       => /\ nodes' = nodes
          /\ \A r \in rels' \ rels :
                 /\ \E e \in nodes : e.id = r.source
                 /\ \E e \in nodes : e.id = r.target
          /\ (\A i \in 1..Len(call'.relationships) :
                  MissingEndpoint(nodes, call'.relationships[i]))
             => /\ rels' = rels
                /\ ~call'.raised]_vars

\* C30: for every list of files and every order in which the workers
\* finish, _ingest_parallel returns a list as long as the file list whose
\* i-th entry is the document of the i-th file, or None if its ingestion
\* failed, which is the result of _ingest_sequential; ingest_directory
\* returns the successful documents in file order.
C30_ParallelKeepsFileOrder ==
    call.pc = "returned" =>
        /\ call.op = "_ingest_parallel"
           => /\ Len(returned) = Len(executor.files)
              /\ \A i \in 1..Len(executor.files) :
                     returned[i] = ingest_file(executor.files[i])
              /\ returned = _ingest_sequential(executor.files)
        /\ call.op = "ingest_directory"
           => /\ returned = Successful(_ingest_sequential(executor.files))
              /\ \A i \in 1..Len(returned) : \A j \in 1..Len(returned) :
                     i < j => returned[i].source < returned[j].source

\* _ingest_parallel has returned for three files of which the last finished
\* first and one failed
C30_Witness ==
    /\ call.pc = "returned"
    /\ call.op = "_ingest_parallel"
    /\ Len(executor.files) = 3
    /\ executor.collected[1] = 3
    /\ \E i \in 1..3 : returned[i].none
    /\ \E i \in 1..3 : ~returned[i].none
    /\ executor.files[1] # executor.files[3]

====
